---- MODULE Spec2Model ----
(***************************************************************************)
(* Entity-resolution core of gsoc-orgs: URL normalisation, union-find      *)
(* grouping and record merging (merge_by_urls.py, merge_with_api_names.py),*)
(* name similarity and alignment with the API names (align_with_api.py),   *)
(* and the comparison reports (final_comparison.py,                        *)
(* final_comparison_report.py, compare_url_merged_with_api.py).            *)
(*                                                                         *)
(* Python strings are sequences of one-character strings, so that the      *)
(* string functions of the source (strip, lower, replace, split, urlparse, *)
(* SequenceMatcher) are computed character by character.  None is the      *)
(* one-element sequence <<"None">>, which no string equals.                *)
(***************************************************************************)
EXTENDS Integers, Sequences, FiniteSets, TLC

None == <<"None">>

\* Python truthiness of an optional string or list: neither None nor empty.
Truthy(v) == v # None /\ v # <<>>

(***************************************************************************)
(* String primitives                                                       *)
(***************************************************************************)
UpperChars == <<"A","B","C","D","E","F","G","H","I","J","K","L","M",
                "N","O","P","Q","R","S","T","U","V","W","X","Y","Z">>
LowerChars == <<"a","b","c","d","e","f","g","h","i","j","k","l","m",
                "n","o","p","q","r","s","t","u","v","w","x","y","z">>
Digits == <<"0","1","2","3","4","5","6","7","8","9">>

Range(s) == {s[k] : k \in DOMAIN s}

LowerChar(c) ==
    IF \E k \in DOMAIN UpperChars : UpperChars[k] = c
    THEN LowerChars[CHOOSE k \in DOMAIN UpperChars : UpperChars[k] = c]
    ELSE c

\* str.lower()
lower(s) == [k \in 1..Len(s) |-> LowerChar(s[k])]

Whitespace == {" ", "\t", "\n", "\r"}

RECURSIVE lstrip(_, _)
lstrip(s, cs) == IF s # <<>> /\ Head(s) \in cs THEN lstrip(Tail(s), cs) ELSE s

RECURSIVE rstrip(_, _)
rstrip(s, cs) ==
    IF s # <<>> /\ s[Len(s)] \in cs THEN rstrip(SubSeq(s, 1, Len(s) - 1), cs) ELSE s

\* str.strip(chars)
strip(s, cs) == rstrip(lstrip(s, cs), cs)

IsAt(s, p, i) == i >= 1 /\ i + Len(p) - 1 <= Len(s) /\ SubSeq(s, i, i + Len(p) - 1) = p

\* str.find(p), 1-based; 0 when p does not occur
str_find(s, p) ==
    IF \E i \in 1..Len(s) : IsAt(s, p, i)
    THEN CHOOSE i \in 1..Len(s) : IsAt(s, p, i) /\ \A j \in 1..(i - 1) : ~IsAt(s, p, j)
    ELSE 0

\* p in s
contains(s, p) == p = <<>> \/ str_find(s, p) > 0

startswith(s, p) == IsAt(s, p, 1)

endswith(s, p) == IsAt(s, p, Len(s) - Len(p) + 1)

\* str.replace(p, r): every non-overlapping occurrence, left to right
RECURSIVE replace(_, _, _)
replace(s, p, r) ==
    LET i == str_find(s, p) IN
    IF i = 0 THEN s
    ELSE SubSeq(s, 1, i - 1) \o r \o replace(SubSeq(s, i + Len(p), Len(s)), p, r)

\* s.split(sep)[0]
split_first(s, sep) ==
    LET i == str_find(s, sep) IN IF i = 0 THEN s ELSE SubSeq(s, 1, i - 1)

\* index of the first character of s that is in cs, Len(s)+1 when there is none
FirstOf(s, cs) ==
    IF \E i \in 1..Len(s) : s[i] \in cs
    THEN CHOOSE i \in 1..Len(s) : s[i] \in cs /\ \A j \in 1..(i - 1) : s[j] \notin cs
    ELSE Len(s) + 1

(***************************************************************************)
(* urllib.parse.urlparse, for URLs over letters, digits and . / : ? # @ -  *)
(* and blanks (no brackets and no ';', for which urlparse has extra rules) *)
(***************************************************************************)
SchemeChars == Range(UpperChars) \cup Range(LowerChars) \cup Range(Digits) \cup {"+", "-", "."}

\* the path of what follows the netloc: up to the first ? or #
path_of(rest) == SubSeq(rest, 1, FirstOf(rest, {"?", "#"}) - 1)

\* after the scheme: "//" starts the netloc, which ends at the first / ? or #
urlparse_netloc(scheme, rest, d) ==
    IF startswith(rest, <<"/","/">>)
    THEN [scheme |-> scheme, netloc |-> SubSeq(rest, 3, d - 1),
          path |-> path_of(SubSeq(rest, d, Len(rest)))]
    ELSE [scheme |-> scheme, netloc |-> <<>>, path |-> path_of(rest)]

urlparse_rest(scheme, rest) ==
    urlparse_netloc(scheme, rest, 2 + FirstOf(SubSeq(rest, 3, Len(rest)), {"/", "?", "#"}))

\* i is the position of the first ':'; what precedes it is the scheme when it
\* starts with a letter and holds scheme characters only
urlparse_scheme(url, i) ==
    IF /\ i > 1
       /\ url[1] \in Range(UpperChars) \cup Range(LowerChars)
       /\ \A k \in 1..(i - 1) : url[k] \in SchemeChars
    THEN urlparse_rest(lower(SubSeq(url, 1, i - 1)), SubSeq(url, i + 1, Len(url)))
    ELSE urlparse_rest(<<>>, url)

urlparse(url) == urlparse_scheme(url, str_find(url, <<":">>))

(***************************************************************************)
(* merge_by_urls.py: normalize_url, extract_key_urls                       *)
(***************************************************************************)
S_SchemeSep == <<":","/","/">>
S_Http == <<"h","t","t","p",":","/","/">>
S_Https == <<"h","t","t","p","s",":","/","/">>
S_Www == <<"w","w","w",".">>
S_GithubCom == <<"g","i","t","h","u","b",".","c","o","m">>
S_TwitterCom == <<"t","w","i","t","t","e","r",".","c","o","m">>
S_XCom == <<"x",".","c","o","m">>
K_Github == <<"g","i","t","h","u","b",":">>
K_Twitter == <<"t","w","i","t","t","e","r",":">>
K_Web == <<"w","e","b",":">>
K_WebGroupsGoogle == <<"w","e","b",":","g","r","o","u","p","s",".","g","o","o","g","l","e",".","c","o","m">>
K_WebPlusGoogle == <<"w","e","b",":","p","l","u","s",".","g","o","o","g","l","e",".","c","o","m">>

\* lines 27-40: the key of a domain and the first path segment
key_of(domain, part0) ==
    IF contains(domain, S_GithubCom) /\ part0 # <<>> THEN K_Github \o part0
    ELSE IF (contains(domain, S_TwitterCom) \/ contains(domain, S_XCom)) /\ part0 # <<>>
         THEN K_Twitter \o part0
    ELSE IF domain # <<>> THEN K_Web \o domain
    ELSE None

\* the domain with its www. kept
domain_of_keep_www(parsed) ==
    replace(replace(
        IF parsed.netloc # <<>> THEN parsed.netloc ELSE split_first(parsed.path, <<"/">>),
        S_Http, <<>>), S_Https, <<>>)

\* lines 23-24
domain_of(parsed) ==
    replace(replace(replace(
        IF parsed.netloc # <<>> THEN parsed.netloc ELSE split_first(parsed.path, <<"/">>),
        S_Www, <<>>), S_Http, <<>>), S_Https, <<>>)

\* parsed.path.strip('/').split('/')[0]
first_path_part(parsed) == split_first(strip(parsed.path, {"/"}), <<"/">>)

normalize_parsed(parsed) == key_of(domain_of(parsed), first_path_part(parsed))

\* lines 18-22
normalize_stripped(u) ==
    IF u = <<>> THEN None
    ELSE normalize_parsed(urlparse(IF contains(u, S_SchemeSep) THEN u ELSE S_Http \o u))

\* the URL normalised without .lower()
normalize_url_keep_case(url) ==
    IF ~Truthy(url) THEN None
    ELSE normalize_stripped(rstrip(strip(url, Whitespace), {"/"}))

\* merge_by_urls.normalize_url
normalize_url(url) ==
    IF ~Truthy(url) THEN None
    ELSE normalize_stripped(rstrip(lower(strip(url, Whitespace)), {"/"}))

\* dict.get(key) for string-valued fields
Get(org, key) == IF key \in DOMAIN org THEN org[key] ELSE None

EmptyDict == [k \in {} |-> None]

\* org.get('socials'), an absent field read as the empty dict (both are falsy)
socials_of(org) == IF "socials" \in DOMAIN org THEN org.socials ELSE EmptyDict

\* line 53: a website key is kept unless it is on groups/plus.google.com
website_key(normalized) ==
    IF /\ normalized # None
       /\ ~startswith(normalized, K_WebGroupsGoogle)
       /\ ~startswith(normalized, K_WebPlusGoogle)
    THEN {normalized} ELSE {}

\* lines 63, 69: a social key is kept when it has the platform's prefix
social_key(normalized, prefix) ==
    IF normalized # None /\ startswith(normalized, prefix) THEN {normalized} ELSE {}

\* merge_by_urls.extract_key_urls: the set of normalized keys of a record
extract_key_urls(org) ==
    website_key(normalize_url(Get(org, "website")))
    \cup social_key(normalize_url(Get(socials_of(org), "github")), K_Github)
    \cup social_key(normalize_url(Get(socials_of(org), "twitter")), K_Twitter)

(***************************************************************************)
(* Ordering of strings (code-point order, as sorted() and sort() use);    *)
(* Ascii lists the printable characters but the quote, the backslash and   *)
(* the backtick, in code-point order.                                      *)
(***************************************************************************)
Ascii == <<" ","!","#","$","%","&","'","(",")","*","+",",","-",".","/",
           "0","1","2","3","4","5","6","7","8","9",":",";","<","=",">","?","@",
           "A","B","C","D","E","F","G","H","I","J","K","L","M","N","O","P","Q",
           "R","S","T","U","V","W","X","Y","Z","[","]","^","_",
           "a","b","c","d","e","f","g","h","i","j","k","l","m","n","o","p","q",
           "r","s","t","u","v","w","x","y","z","{","|","}","~">>

Ord(c) == CHOOSE k \in DOMAIN Ascii : Ascii[k] = c

\* a < b for Python strings
StrLess(a, b) ==
    LET m == IF Len(a) < Len(b) THEN Len(a) ELSE Len(b)
        differ == {k \in 1..m : a[k] # b[k]}
    IN IF differ = {} THEN Len(a) < Len(b)
       ELSE LET k == CHOOSE q \in differ : \A r \in differ : q <= r
            IN Ord(a[k]) < Ord(b[k])

\* sorted(s, key=...) / list.sort(key=...): stable, Less compares the keys
SortBy(s, Less(_, _)) ==
    LET n == Len(s)
        pos(k) == 1 + Cardinality({j \in 1..n :
                        Less(s[j], s[k]) \/ (~Less(s[k], s[j]) /\ j < k)})
    IN [p \in 1..n |-> s[CHOOSE k \in 1..n : pos(k) = p]]

\* sorted(list(S)) for a set of integers
SortedSeq(S) ==
    [p \in 1..Cardinality(S) |-> CHOOSE y \in S : Cardinality({z \in S : z < y}) = p - 1]

\* the elements of s at the indices K, in order
SubseqAt(s, K) ==
    [p \in 1..Cardinality(K) |->
        s[CHOOSE k \in K : Cardinality({j \in K : j < k}) = p - 1]]

RECURSIVE Flatten(_)
Flatten(ss) == IF ss = <<>> THEN <<>> ELSE Head(ss) \o Flatten(Tail(ss))

Min(S) == CHOOSE y \in S : \A z \in S : y <= z

(***************************************************************************)
(* merge_by_urls.py: merge_organizations.  Modelled fields: _id, name,     *)
(* years_appeared, years_count, socials, website.                          *)
(***************************************************************************)
S_Foundation == <<"F","o","u","n","d","a","t","i","o","n">>
S_Project == <<"P","r","o","j","e","c","t">>

has_name(org) == "name" \in DOMAIN org /\ org.name # None

\* the sort key of line 93-96: (has a Foundation/Project marker, -len)
name_key_less(a, b) ==
    LET fa == contains(a, S_Foundation) \/ contains(a, S_Project)
        fb == contains(b, S_Foundation) \/ contains(b, S_Project)
    IN (~fa /\ fb) \/ (fa = fb /\ Len(a) > Len(b))

best_name(orgs) == SortBy([k \in 1..Len(orgs) |-> orgs[k].name], name_key_less)[1]

\* the years of the members after the first
all_years_skip_first(orgs) ==
    UNION {Range(orgs[k].years_appeared) :
              k \in {j \in 2..Len(orgs) : "years_appeared" \in DOMAIN orgs[j]}}

\* the union of years_appeared over the members that have the field
all_years(orgs) ==
    UNION {Range(orgs[k].years_appeared) :
              k \in {j \in 1..Len(orgs) : "years_appeared" \in DOMAIN orgs[j]}}

has_socials(org) == "socials" \in DOMAIN org /\ DOMAIN org.socials # {}

\* first non-empty value of socials[key] in member order, else None
first_social(orgs, key) ==
    LET cand == {k \in 1..Len(orgs) : /\ has_socials(orgs[k])
                                      /\ key \in DOMAIN orgs[k].socials
                                      /\ Truthy(orgs[k].socials[key])}
    IN IF cand = {} THEN None ELSE orgs[Min(cand)].socials[key]

\* socials.other: the members' items in order, without empty items and duplicates
all_other(orgs) ==
    LET all == Flatten([k \in 1..Len(orgs) |->
                   IF "socials" \in DOMAIN orgs[k] /\ "other" \in DOMAIN orgs[k].socials
                   THEN orgs[k].socials.other ELSE <<>>])
    IN SubseqAt(all, {k \in 1..Len(all) :
                        all[k] # <<>> /\ \A j \in 1..(k - 1) : all[j] # all[k]})

merged_website(orgs) ==
    LET websites == SubseqAt([k \in 1..Len(orgs) |-> Get(orgs[k], "website")],
                             {k \in 1..Len(orgs) : Truthy(Get(orgs[k], "website"))})
        is_https(w) == startswith(w, S_Https)
        https_sites == SelectSeq(websites, is_https)
    IN IF https_sites # <<>> THEN https_sites[1]
       ELSE IF websites # <<>> THEN websites[1] ELSE None

\* A created_at / updated_at value is [kind |-> "$date", at |-> n] for the
\* dict {"$date": <the instant n, with its UTC offset>}, [kind |-> "iso",
\* at |-> n] for the instant n written as a plain ISO string, and
\* [kind |-> "null"] for null.
\* parse_mongo_date: the {"$date": ...} form gives an offset-aware datetime,
\* anything else datetime.now(), which is naive; successive calls of now()
\* are ordered by the number of the call
parse_mongo_date(date_obj, call) ==
    IF date_obj.kind = "$date" THEN [aware |-> TRUE, at |-> date_obj.at]
    ELSE [aware |-> FALSE, at |-> call]

\* earliest = None / latest = None
NoStamp == [set |-> FALSE, dt |-> [aware |-> FALSE, at |-> 0], value |-> [kind |-> "null"]]

\* lines 230-246: the loop over the members that have the key; comparing an
\* aware with a naive datetime raises TypeError
RECURSIVE pick_stamp(_, _, _, _, _)
pick_stamp(orgs, key, k, best, latest) ==
    IF k > Len(orgs) THEN [raised |-> FALSE, set |-> best.set, value |-> best.value]
    ELSE IF key \notin DOMAIN orgs[k] THEN pick_stamp(orgs, key, k + 1, best, latest)
    ELSE LET dt == parse_mongo_date(orgs[k][key], k)
             taken == [set |-> TRUE, dt |-> dt, value |-> orgs[k][key]]
         IN IF ~best.set THEN pick_stamp(orgs, key, k + 1, taken, latest)
            ELSE IF dt.aware # best.dt.aware
                 THEN [raised |-> TRUE, set |-> best.set, value |-> best.value]
                 ELSE IF (latest /\ dt.at > best.dt.at) \/ (~latest /\ dt.at < best.dt.at)
                      THEN pick_stamp(orgs, key, k + 1, taken, latest)
                      ELSE pick_stamp(orgs, key, k + 1, best, latest)

earliest_created(orgs) == pick_stamp(orgs, "created_at", 1, NoStamp, FALSE)
latest_updated(orgs) == pick_stamp(orgs, "updated_at", 1, NoStamp, TRUE)

\* merged['created_at'] and merged['updated_at'] are assigned only inside the loops
stamp_fields(orgs) ==
    (IF earliest_created(orgs).set
     THEN [f \in {"created_at"} |-> earliest_created(orgs).value] ELSE EmptyDict)
    @@ (IF latest_updated(orgs).set
        THEN [f \in {"updated_at"} |-> latest_updated(orgs).value] ELSE EmptyDict)

stamps_raise(orgs) == earliest_created(orgs).raised \/ latest_updated(orgs).raised

\* the inputs on which merge_organizations raises (KeyError on _id or name,
\* TypeError on a None name or on the comparison of the timestamps)
merge_raises(orgs) ==
    /\ Len(orgs) # 1
    /\ \/ orgs = <<>>
       \/ "_id" \notin DOMAIN orgs[1]
       \/ \E k \in 1..Len(orgs) : ~has_name(orgs[k])
       \/ stamps_raise(orgs)

\* org['appearances'], an absent field read as the empty list
appearances_of(org) == IF "appearances" \in DOMAIN org THEN org.appearances ELSE <<>>

\* app.get('year') is not None and not 0
has_year(app) == "year" \in DOMAIN app /\ app.year # 0

year_less(a, b) == a.year < b.year

\* lines 110-116: the appearances with a year not seen before, in order
RECURSIVE first_seen(_, _)
first_seen(apps, acc) ==
    IF apps = <<>> THEN acc
    ELSE first_seen(Tail(apps),
                    IF /\ has_year(Head(apps))
                       /\ \A k \in 1..Len(acc) : acc[k].year # Head(apps).year
                    THEN Append(acc, Head(apps)) ELSE acc)

\* every appearance that has a year, by year
merged_appearances_all(orgs) ==
    SortBy(SelectSeq(Flatten([k \in 1..Len(orgs) |-> appearances_of(orgs[k])]),
                     LAMBDA app : has_year(app)), year_less)

\* lines 108-117 (merge_with_api_names: 97-106, align_with_api: 276-293, 313)
merged_appearances(orgs) ==
    SortBy(first_seen(Flatten([k \in 1..Len(orgs) |-> appearances_of(orgs[k])]), <<>>),
           year_less)

\* lines 99-189 (merge_with_api_names: 88-179): the merged record but its name
\* and its timestamps
merge_untimed(orgs, name) ==
    [_id            |-> orgs[1]._id,
     name           |-> name,
     years_appeared |-> SortedSeq(all_years(orgs)),
     years_count    |-> Cardinality(all_years(orgs)),
     appearances    |-> merged_appearances(orgs),
     socials        |-> [twitter      |-> first_social(orgs, "twitter"),
                         github       |-> first_social(orgs, "github"),
                         email        |-> first_social(orgs, "email"),
                         blog         |-> first_social(orgs, "blog"),
                         mailing_list |-> first_social(orgs, "mailing_list"),
                         other        |-> all_other(orgs)],
     website        |-> merged_website(orgs)]

\* lines 85-248 (merge_with_api_names: 83-234), over the modelled fields
merge_rest(orgs, name) == merge_untimed(orgs, name) @@ stamp_fields(orgs)

merge_fields(orgs) == merge_rest(orgs, best_name(orgs))

\* without the shortcut for a single record, named after the first member
merge_organizations_no_shortcut(orgs) == merge_rest(orgs, Get(orgs[1], "name"))

\* merge_by_urls.merge_organizations, where it does not raise
merge_organizations(orgs) ==
    IF Len(orgs) = 1 THEN orgs[1] ELSE merge_fields(orgs)

\* merge_with_api_names.merge_organizations raises on a first member without _id
merge_api_raises(orgs) ==
    /\ Len(orgs) # 1
    /\ (orgs = <<>> \/ "_id" \notin DOMAIN orgs[1] \/ stamps_raise(orgs))

\* orgs[0].copy() with org['name'] = canonical_name
renamed(org, canonical_name) ==
    [f \in DOMAIN org \cup {"name"} |-> IF f = "name" THEN canonical_name ELSE org[f]]

\* merge_with_api_names.merge_organizations(orgs, canonical_name)
merge_organizations_api(orgs, canonical_name) ==
    IF Len(orgs) = 1 THEN renamed(orgs[1], canonical_name)
    ELSE merge_rest(orgs, canonical_name)

(***************************************************************************)
(* merge_by_urls.main: the union-find over record indices (1-based here)   *)
(***************************************************************************)
\* the parent of x, not followed up to the root
find_parent_only(parent, x) == [root |-> parent[x], parent |-> parent]

\* find with path compression: the root of x and the parent array afterwards
RECURSIVE find(_, _)
find(parent, x) ==
    IF parent[x] # x
    THEN LET r == find(parent, parent[x])
         IN [root |-> r.root, parent |-> [r.parent EXCEPT ![x] = r.root]]
    ELSE [root |-> x, parent |-> parent]

\* attaches x0 itself, not its root
union_attach_node(parent, x0, y0) ==
    LET fx == find(parent, x0)
        fy == find(fx.parent, y0)
    IN IF fx.root # fy.root THEN [fy.parent EXCEPT ![x0] = fy.root] ELSE fy.parent

union(parent, x0, y0) ==
    LET fx == find(parent, x0)
        fy == find(fx.parent, y0)
    IN IF fx.root # fy.root THEN [fy.parent EXCEPT ![fx.root] = fy.root] ELSE fy.parent

\* lines 292-294: union the first index of the list with every other one
RECURSIVE union_all(_, _, _)
union_all(parent, first_idx, rest) ==
    IF rest = <<>> THEN parent
    ELSE union_all(union(parent, first_idx, Head(rest)), first_idx, Tail(rest))

\* lines 297-300: groups[root].append(i) for i in order; a group is the
\* sequence of its members' indices, groups are in order of first insertion
RECURSIVE group_by_root(_, _, _)
group_by_root(parent, k, acc) ==
    IF k > Len(parent) THEN acc
    ELSE LET f == find(parent, k)
             at == {g \in 1..Len(acc.roots) : acc.roots[g] = f.root}
         IN group_by_root(f.parent, k + 1,
              IF at = {}
              THEN [roots |-> Append(acc.roots, f.root),
                    members |-> Append(acc.members, <<k>>), parent |-> f.parent]
              ELSE LET g == CHOOSE q \in at : TRUE
                   IN [roots |-> acc.roots,
                       members |-> [acc.members EXCEPT ![g] = Append(@, k)],
                       parent |-> f.parent])

\* lines 297-300 from the first record on
read_groups_from_second(parent) ==
    group_by_root(parent, 2, [roots |-> <<>>, members |-> <<>>, parent |-> parent])

read_groups(parent) ==
    group_by_root(parent, 1, [roots |-> <<>>, members |-> <<>>, parent |-> parent])

(***************************************************************************)
(* Names and URLs of the records the specifications draw their inputs from *)
(***************************************************************************)
N_XBMCFoundation == <<"X","B","M","C"," ","F","o","u","n","d","a","t","i","o","n">>
N_KodiFoundation == <<"K","o","d","i"," ","F","o","u","n","d","a","t","i","o","n">>
N_Kodi == <<"K","o","d","i">>
N_Debian == <<"D","e","b","i","a","n">>
N_PEcAn == <<"P","E","c","A","n">>
N_AboutCodeOrg == <<"A","b","o","u","t","C","o","d","e",".","o","r","g">>
N_AboutCode == <<"A","b","o","u","t","C","o","d","e">>
N_Ceph == <<"C","e","p","h">>
N_CephFoundation == <<"C","e","p","h"," ","F","o","u","n","d","a","t","i","o","n">>
U_KodiHttp == <<"h","t","t","p",":","/","/","k","o","d","i",".","t","v","/">>
U_KodiWww == <<"h","t","t","p","s",":","/","/","w","w","w",".","k","o","d","i",".","t","v">>
U_GithubXbmc == <<"h","t","t","p","s",":","/","/","g","i","t","h","u","b",".","c","o","m","/","x","b","m","c">>
U_GithubXbmcRepo == <<"g","i","t","h","u","b",".","c","o","m","/","x","b","m","c","/","x","b","m","c">>
U_TwitterKodi == <<"h","t","t","p","s",":","/","/","t","w","i","t","t","e","r",".","c","o","m","/","K","o","d","i","T","V">>
U_XKodi == <<"h","t","t","p","s",":","/","/","x",".","c","o","m","/","K","o","d","i","T","V","/">>
U_GithubBare == <<"h","t","t","p","s",":","/","/","g","i","t","h","u","b",".","c","o","m">>
U_MediumA == <<"h","t","t","p","s",":","/","/","m","e","d","i","u","m",".","c","o","m","/","@","a">>
U_MediumB == <<"h","t","t","p","s",":","/","/","m","e","d","i","u","m",".","c","o","m","/","@","b","/">>
U_GroupsGoogle == <<"h","t","t","p","s",":","/","/","g","r","o","u","p","s",".","g","o","o","g","l","e",".","c","o","m","/","f","o","r","u","m","/","a">>

\* raw records as loaded from gsoc_archive.organizations.json (the _id is the
\* position in the list, added when the list is built)
RawPool == <<
    [name |-> N_XBMCFoundation, website |-> U_KodiHttp, years_appeared |-> <<2014, 2015>>],
    [name |-> N_KodiFoundation, website |-> U_KodiWww,
     socials |-> [github |-> U_GithubXbmc, twitter |-> None, other |-> <<U_KodiWww>>],
     years_appeared |-> <<2016, 2017, 2018, 2019, 2020>>],
    [name |-> N_Kodi, website |-> <<>>,
     socials |-> [github |-> U_GithubXbmcRepo, twitter |-> U_TwitterKodi],
     years_appeared |-> <<2016, 2018>>],
    [name |-> N_Debian, website |-> U_GithubBare, years_appeared |-> <<2017, 2018>>],
    [name |-> N_AboutCodeOrg, website |-> U_MediumA, socials |-> EmptyDict],
    [name |-> N_Ceph, website |-> U_MediumB, socials |-> [twitter |-> U_XKodi],
     years_appeared |-> <<2019>>],
    [name |-> N_CephFoundation, website |-> U_GroupsGoogle,
     socials |-> [github |-> <<>>, other |-> <<U_KodiWww, U_GroupsGoogle>>],
     years_appeared |-> <<2016>>],
    [website |-> None, years_appeared |-> <<2019>>] >>

with_id(org, id) == [f \in DOMAIN org \cup {"_id"} |-> IF f = "_id" THEN id ELSE org[f]]

MaxOrgs == 3

\* the lists of at most n records of a pool, each record with its own _id
RecordLists(pool, n) ==
    UNION {{[k \in 1..m |-> with_id(pool[c[k]], k)] : c \in [1..m -> DOMAIN pool]} : m \in 0..n}

Perms(S) == {q \in [1..Cardinality(S) -> S] : Range(q) = S}

(***************************************************************************)
(* State.  A specification runs one script (or the scripts in sequence);   *)
(* the variables of the scripts it does not run keep their initial value.  *)
(***************************************************************************)
VARIABLES
    pc,                \* the position of the running script
    i,                 \* the index of the loop the script is in
    \* merge_by_urls.main
    orgs,              \* the raw records
    url_to_orgs,       \* key -> indices of the records with that key, in insertion order
    parent,            \* the union-find parent array
    groups,            \* the groups read off the roots, in insertion order
    merged_orgs,       \* the merged records
    \* merge_organizations applied to one group
    group_orgs,        \* the group
    canonical_name,    \* the canonical name merge_with_api_names passes
    merged,            \* the merged record
    remerged,          \* the merge of the list holding just the merged record
    \* align_with_api.main
    api_orgs,          \* the authoritative records
    our_orgs,          \* the merged records to align
    api_groups,        \* authoritative name -> the records assigned to it
    unmatched_orgs,    \* the records assigned to no authoritative name
    aligned_orgs,      \* the aligned output
    \* final_comparison.main
    final_orgs,        \* the candidate records
    perfect_matches,
    year_mismatches,
    missing_from_ours,
    only_in_ours,      \* final_comparison_report: the candidates of no authoritative name
    report,            \* the counts the summary prints
    \* are_names_compatible / similarity_ratio applied to a pair of names
    name1,
    name2,
    compat,            \* the result and the two similarities it compared
    \* find_best_api_match applied to a name, a candidate list and a threshold
    query_name,
    threshold,
    api_match,         \* the (index of the) candidate returned and its confidence
    \* merge_orgs_by_domain_and_name.fuzzy_group_remaining
    docs,              \* the documents without a website
    thresh,            \* the score a pair of names has to reach
    used,              \* the _id of the documents already in a group
    name_groups,       \* the groups, each the indices of its documents in order
    \* merge_orgs_by_domain_and_name.main
    collection,        \* db.organizations: the stored documents
    projects,          \* db.projects: the org_canonical_id of each project
    by_domain,         \* domain -> the documents fetched with it, in insertion order
    dry_run,           \* --dry-run
    delete_old,        \* --delete-old
    \* normalize_url applied to two URLs
    url1,
    url2,
    key1,              \* normalize_url(url1)
    key2,              \* normalize_url(url2)
    \* find and union called on the parent array
    union_requests,    \* the union calls made so far, each a pair <<x, y>>
    workers,           \* the callers of union: where each is in its call, and its locals
    overlapped         \* a caller read its roots while another was between its read and its write

gvars == <<orgs, url_to_orgs, parent, groups, merged_orgs>>
mvars == <<group_orgs, canonical_name, merged, remerged>>
avars == <<api_orgs, our_orgs, api_groups, unmatched_orgs, aligned_orgs>>
cvars == <<final_orgs, perfect_matches, year_mismatches, missing_from_ours, only_in_ours,
          report>>
uvars == <<union_requests, workers, overlapped>>

zvars == <<url1, url2, key1, key2, uvars>>

dvars == <<collection, projects, by_domain, dry_run, delete_old>>

nvars == <<name1, name2, compat, query_name, threshold, api_match,
           docs, thresh, used, name_groups, dvars, zvars>>

vars == <<pc, i, gvars, mvars, avars, cvars, nvars>>

GroupingIdle ==
    orgs = <<>> /\ url_to_orgs = <<>> /\ parent = <<>> /\ groups = <<>> /\ merged_orgs = <<>>
MergeIdle == group_orgs = <<>> /\ canonical_name = None /\ merged = None /\ remerged = None
AlignIdle ==
    our_orgs = <<>> /\ api_groups = EmptyDict /\ unmatched_orgs = <<>> /\ aligned_orgs = <<>>
CompareIdle ==
    final_orgs = <<>> /\ perfect_matches = <<>> /\ year_mismatches = <<>>
    /\ missing_from_ours = <<>> /\ only_in_ours = <<>> /\ report = None
UnionIdle == union_requests = {} /\ workers = <<>> /\ overlapped = FALSE
UrlsIdle == url1 = None /\ url2 = None /\ key1 = None /\ key2 = None /\ UnionIdle
MigrateIdle ==
    /\ collection = <<>> /\ projects = <<>> /\ by_domain = <<>>
    /\ dry_run = FALSE /\ delete_old = FALSE /\ UrlsIdle
FuzzyIdle == docs = <<>> /\ thresh = None /\ used = {} /\ name_groups = <<>> /\ MigrateIdle
MatchIdle == query_name = None /\ threshold = None /\ api_match = None /\ FuzzyIdle
NamesIdle == name1 = None /\ name2 = None /\ compat = None /\ MatchIdle

(***************************************************************************)
(* merge_by_urls.main                                                      *)
(***************************************************************************)
\* url_to_orgs[key].append(idx)
add_url(u2o, key, idx) ==
    IF \E e \in 1..Len(u2o) : u2o[e].url = key
    THEN [e \in 1..Len(u2o) |->
            IF u2o[e].url = key THEN [u2o[e] EXCEPT !.index = Append(@, idx)] ELSE u2o[e]]
    ELSE Append(u2o, [url |-> key, index |-> <<idx>>])

RECURSIVE add_urls(_, _, _)
add_urls(u2o, keys, idx) ==
    IF keys = <<>> THEN u2o ELSE add_urls(add_url(u2o, Head(keys), idx), Tail(keys), idx)

group_orgs_of(g) == [k \in 1..Len(g) |-> orgs[g[k]]]

name_lower_less(a, b) == StrLess(lower(a.name), lower(b.name))

InitGrouping ==
    /\ pc = "extract"
    /\ i = 1
    /\ orgs \in RecordLists(RawPool, MaxOrgs)
    /\ url_to_orgs = <<>>
    /\ parent = <<>>
    /\ groups = <<>>
    /\ merged_orgs = <<>>
    /\ MergeIdle /\ api_orgs = <<>> /\ AlignIdle /\ CompareIdle /\ NamesIdle

\* lines 261-268, one record; the keys of a record are a set, iterated in any order
ExtractKeyUrls ==
    /\ pc = "extract" /\ i <= Len(orgs)
    /\ \E keys \in Perms(extract_key_urls(orgs[i])) :
          url_to_orgs' = add_urls(url_to_orgs, keys, i)
    /\ i' = i + 1
    /\ UNCHANGED <<pc, orgs, parent, groups, merged_orgs>>
    /\ UNCHANGED <<mvars, avars, cvars, nvars>>

\* line 276
InitParent ==
    /\ pc = "extract" /\ i > Len(orgs)
    /\ parent' = [k \in 1..Len(orgs) |-> k]
    /\ pc' = "union"
    /\ i' = 1
    /\ UNCHANGED <<orgs, url_to_orgs, groups, merged_orgs>>
    /\ UNCHANGED <<mvars, avars, cvars, nvars>>

\* lines 289-294, one key
UnionSharedUrl ==
    /\ pc = "union" /\ i <= Len(url_to_orgs)
    /\ LET org_list == url_to_orgs[i].index
       IN parent' = IF Len(org_list) > 1
                    THEN union_all(parent, org_list[1], Tail(org_list))
                    ELSE parent
    /\ i' = i + 1
    /\ UNCHANGED <<pc, orgs, url_to_orgs, groups, merged_orgs>>
    /\ UNCHANGED <<mvars, avars, cvars, nvars>>

\* lines 297-300
GroupByRoot ==
    /\ pc = "union" /\ i > Len(url_to_orgs)
    /\ LET r == read_groups(parent)
       IN /\ groups' = r.members
          /\ parent' = r.parent
    /\ pc' = "merge"
    /\ i' = 1
    /\ UNCHANGED <<orgs, url_to_orgs, merged_orgs>>
    /\ UNCHANGED <<mvars, avars, cvars, nvars>>

\* lines 305-313, one group; lines 308 and 91 raise on a member without a name
MergeGroup ==
    /\ pc = "merge" /\ i <= Len(groups)
    /\ IF merge_raises(group_orgs_of(groups[i]))
       THEN pc' = "raised" /\ UNCHANGED <<i, merged_orgs>>
       ELSE /\ merged_orgs' = Append(merged_orgs, merge_organizations(group_orgs_of(groups[i])))
            /\ i' = i + 1
            /\ pc' = pc
    /\ UNCHANGED <<orgs, url_to_orgs, parent, groups>>
    /\ UNCHANGED <<mvars, avars, cvars, nvars>>

\* lines 316-335: sort by lower-case name (raises on a record without a name), save
SortAndSave ==
    /\ pc = "merge" /\ i > Len(groups)
    /\ IF \E k \in 1..Len(merged_orgs) : ~has_name(merged_orgs[k])
       THEN pc' = "raised" /\ UNCHANGED merged_orgs
       ELSE merged_orgs' = SortBy(merged_orgs, name_lower_less) /\ pc' = "done"
    /\ UNCHANGED <<i, orgs, url_to_orgs, parent, groups>>
    /\ UNCHANGED <<mvars, avars, cvars, nvars>>

NextGrouping ==
    \/ ExtractKeyUrls
    \/ InitParent
    \/ UnionSharedUrl
    \/ GroupByRoot
    \/ MergeGroup
    \/ SortAndSave

Init == InitGrouping

Next == NextGrouping

Spec == Init /\ [][Next]_vars
(***************************************************************************)
(* Properties of URL grouping (Spec)                                       *)
(***************************************************************************)
Grouped == pc \in {"merge", "done", "raised"}

SameGroup(a, b) ==
    \E g \in 1..Len(groups) : a \in Range(groups[g]) /\ b \in Range(groups[g])

\* the root of x, without path compression
RECURSIVE RootOf(_, _)
RootOf(p, x0) == IF p[x0] = x0 THEN x0 ELSE RootOf(p, p[x0])

MergedOf(g) == merge_organizations(group_orgs_of(groups[g]))

\* C1: the groups read off the union-find roots partition the indices of the
\* input (every index in exactly one group, no group empty, one group per
\* root), and one merged record is produced per group: while merging, the
\* k-th merged record is the merge of the k-th group, and the saved list
\* holds the merge of every group exactly once.
C1_GroupsPartitionInput ==
    Grouped =>
        /\ \A k \in 1..Len(orgs) :
              Cardinality({g \in 1..Len(groups) : k \in Range(groups[g])}) = 1
        /\ \A g \in 1..Len(groups) :
              /\ groups[g] # <<>>
              /\ Range(groups[g]) \subseteq 1..Len(orgs)
              /\ Cardinality(Range(groups[g])) = Len(groups[g])
        /\ \A a, b \in 1..Len(orgs) :
              SameGroup(a, b) <=> RootOf(parent, a) = RootOf(parent, b)
        /\ pc = "merge" =>
              /\ Len(merged_orgs) = i - 1
              /\ \A g \in 1..Len(merged_orgs) : merged_orgs[g] = MergedOf(g)
        /\ pc = "done" =>
              /\ Len(merged_orgs) = Len(groups)
              /\ \A g \in 1..Len(groups) :
                    Cardinality({k \in 1..Len(merged_orgs) : merged_orgs[k] = MergedOf(g)}) = 1

\* a finished run with a merged group and a record that has no key at all
C1_Witness ==
    /\ pc = "done"
    /\ \E g \in 1..Len(groups) : Len(groups[g]) > 1
    /\ \E k \in 1..Len(orgs) : extract_key_urls(orgs[k]) = {}

\* the keys under which record k is entered in url_to_orgs
KeysOf(k) ==
    {url_to_orgs[e].url : e \in {d \in 1..Len(url_to_orgs) : k \in Range(url_to_orgs[d].index)}}

\* C3: two records with a common key are in the same group, and grouping is
\* transitive: when A shares a key with B and B shares a key with C, the
\* three are in one group, also when A and C share no key.
C3_SharedKeySameGroup ==
    Grouped =>
        LET K == [k \in 1..Len(orgs) |-> KeysOf(k)]
        IN /\ \A a, b \in 1..Len(orgs) : K[a] \cap K[b] # {} => SameGroup(a, b)
           /\ \A a, b, c \in 1..Len(orgs) :
                 K[a] \cap K[b] # {} /\ K[b] \cap K[c] # {}
                     => \E g \in 1..Len(groups) : {a, b, c} \subseteq Range(groups[g])

\* A and C are grouped through B only
C3_Witness ==
    /\ pc = "done"
    /\ \E a, b, c \in 1..Len(orgs) :
          /\ KeysOf(a) \cap KeysOf(b) # {}
          /\ KeysOf(b) \cap KeysOf(c) # {}
          /\ KeysOf(a) \cap KeysOf(c) = {}
          /\ SameGroup(a, c)

\* merge_with_api_names.normalize_url line 39: the hosts too generic to identify
Denylist == {
    <<"g","r","o","u","p","s",".","g","o","o","g","l","e",".","c","o","m">>,
    <<"p","l","u","s",".","g","o","o","g","l","e",".","c","o","m">>,
    <<"g","i","t","t","e","r",".","i","m">>,
    <<"w","e","b","c","h","a","t",".","f","r","e","e","n","o","d","e",".","n","e","t">>,
    <<"m","e","d","i","u","m",".","c","o","m">>,
    <<"l","i","s","t","s",".","s","o","u","r","c","e","f","o","r","g","e",".","n","e","t">> }

denylisted_key(key) == \E h \in Denylist : key = K_Web \o h

\* the records reachable from those of S over shared keys that are not on a
\* denylisted host
RECURSIVE LinkedTo(_, _)
LinkedTo(S, K) ==
    LET T == S \cup {b \in DOMAIN K :
                        \E a \in S : \E key \in K[a] \cap K[b] : ~denylisted_key(key)}
    IN IF T = S THEN S ELSE LinkedTo(T, K)

\* C8: a denylisted shared host never causes a union: a URL on such a host
\* gives no key to group by, so two records are in one group only when a
\* chain of keys that are not on a denylisted host links them.
C8_DenylistedHostNeverUnions ==
    Grouped =>
        LET K == [k \in 1..Len(orgs) |-> KeysOf(k)]
        IN \A a, b \in 1..Len(orgs) : SameGroup(a, b) => b \in LinkedTo({a}, K)

\* a URL whose host is github.com, twitter.com or x.com (with or without
\* www.) and that has no path segment
bare_social_parsed(parsed) ==
    /\ replace(parsed.netloc, S_Www, <<>>) \in {S_GithubCom, S_TwitterCom, S_XCom}
    /\ first_path_part(parsed) = <<>>

BareSocialHost(url) ==
    /\ Truthy(url)
    /\ bare_social_parsed(urlparse(rstrip(lower(strip(url, Whitespace)), {"/"})))

\* C9: normalize_url gives no key for a bare social-platform host, so no
\* record gets an identity key from one.
C9_BareSocialHostGivesNoKey ==
    Grouped => \A k \in 1..Len(orgs) :
        BareSocialHost(Get(orgs[k], "website")) =>
            /\ normalize_url(Get(orgs[k], "website")) = None
            /\ \A key \in KeysOf(k) : ~startswith(key, K_Web)

(***************************************************************************)
(* merge_organizations applied to one group, in both scripts that define   *)
(* it, and applied again to the list that holds just its result.           *)
(***************************************************************************)
MaxGroup == 3

\* the authoritative names merge_with_api_names passes as canonical_name
CanonicalNames == {N_Kodi, N_CephFoundation}

\* raw records with timestamps: two in the {"$date": ...} form, one with null
\* timestamps, one with none, two with ISO strings
StampedPool == <<
    [name |-> N_Kodi, website |-> U_KodiHttp, years_appeared |-> <<2016>>,
     created_at |-> [kind |-> "$date", at |-> 2], updated_at |-> [kind |-> "$date", at |-> 5]],
    [name |-> N_KodiFoundation, website |-> U_KodiWww, years_appeared |-> <<2017>>,
     created_at |-> [kind |-> "$date", at |-> 1], updated_at |-> [kind |-> "$date", at |-> 7]],
    [name |-> N_XBMCFoundation, website |-> U_KodiHttp, years_appeared |-> <<2014>>,
     created_at |-> [kind |-> "null"], updated_at |-> [kind |-> "null"]],
    [name |-> N_Kodi, website |-> None, years_appeared |-> <<2018>>],
    [name |-> N_Kodi, website |-> U_KodiHttp, years_appeared |-> <<2019>>,
     created_at |-> [kind |-> "iso", at |-> 4], updated_at |-> [kind |-> "iso", at |-> 6]],
    [name |-> N_KodiFoundation, website |-> U_KodiWww, years_appeared |-> <<2015>>,
     created_at |-> [kind |-> "iso", at |-> 3], updated_at |-> [kind |-> "iso", at |-> 4]] >>

\* raw records with appearances: years in common with different counts, out
\* of order, a year twice in one record, an appearance without a year, and a
\* record without the field
AppearancePool == <<
    [name |-> N_Kodi, website |-> U_KodiHttp, years_appeared |-> <<2016, 2018>>,
     appearances |-> <<[year |-> 2018, chosenCount |-> 1], [year |-> 2016, chosenCount |-> 3]>>],
    [name |-> N_KodiFoundation, website |-> U_KodiWww, years_appeared |-> <<2014, 2018>>,
     appearances |-> <<[year |-> 2018, chosenCount |-> 7], [year |-> 2014, chosenCount |-> 2]>>],
    [name |-> N_XBMCFoundation, website |-> U_KodiHttp, years_appeared |-> <<2016>>,
     appearances |-> <<[chosenCount |-> 9], [year |-> 2016, chosenCount |-> 5],
                       [year |-> 2016, chosenCount |-> 6]>>],
    [name |-> N_Kodi, website |-> U_KodiHttp, years_appeared |-> <<2019>>] >>

InitMerge ==
    /\ pc = "group"
    /\ i = 1
    /\ group_orgs \in RecordLists(RawPool, MaxGroup) \cup RecordLists(StampedPool, MaxGroup)
                        \cup RecordLists(AppearancePool, MaxGroup)
    /\ canonical_name \in CanonicalNames
    /\ merged = None
    /\ remerged = None
    /\ GroupingIdle /\ api_orgs = <<>> /\ AlignIdle /\ CompareIdle /\ NamesIdle

\* merge_by_urls.py line 312: merged = merge_organizations(group_orgs)
MergeByUrls ==
    /\ pc = "group"
    /\ IF merge_raises(group_orgs)
       THEN pc' = "raised" /\ UNCHANGED merged
       ELSE pc' = "merged_by_urls" /\ merged' = merge_organizations(group_orgs)
    /\ UNCHANGED <<i, gvars, group_orgs, canonical_name, remerged, avars, cvars, nvars>>

\* merge_by_urls.merge_organizations applied to [merged]
RemergeByUrls ==
    /\ pc = "merged_by_urls"
    /\ pc' = "remerged_by_urls"
    /\ remerged' = merge_organizations(<<merged>>)
    /\ UNCHANGED <<i, gvars, group_orgs, canonical_name, merged, avars, cvars, nvars>>

\* the single record of a group renamed in place, without the copy of line 79
MergeWithApiNamesInPlace ==
    /\ pc = "group"
    /\ IF merge_api_raises(group_orgs)
       THEN pc' = "raised" /\ UNCHANGED <<merged, group_orgs>>
       ELSE /\ pc' = "merged_api"
            /\ merged' = merge_organizations_api(group_orgs, canonical_name)
            /\ group_orgs' = IF Len(group_orgs) = 1
                             THEN <<renamed(group_orgs[1], canonical_name)>>
                             ELSE group_orgs
    /\ UNCHANGED <<i, gvars, canonical_name, remerged, avars, cvars, nvars>>

\* merge_with_api_names.py line 335: merge_organizations(raw_orgs_for_api, api_name)
MergeWithApiNames ==
    /\ pc = "group"
    /\ IF merge_api_raises(group_orgs)
       THEN pc' = "raised" /\ UNCHANGED merged
       ELSE pc' = "merged_api"
            /\ merged' = merge_organizations_api(group_orgs, canonical_name)
    /\ UNCHANGED <<i, gvars, group_orgs, canonical_name, remerged, avars, cvars, nvars>>

\* merge_with_api_names.merge_organizations applied to [merged] and the same name
RemergeWithApiNames ==
    /\ pc = "merged_api"
    /\ pc' = "remerged_api"
    /\ remerged' = merge_organizations_api(<<merged>>, canonical_name)
    /\ UNCHANGED <<i, gvars, group_orgs, canonical_name, merged, avars, cvars, nvars>>

NextMerge == MergeByUrls \/ RemergeByUrls \/ MergeWithApiNames \/ RemergeWithApiNames

SpecMerge == InitMerge /\ [][NextMerge]_vars

\* the years a record lists
YearsOf(org) ==
    IF "years_appeared" \in DOMAIN org THEN Range(org.years_appeared) ELSE {}

MergeReturned == pc \in {"merged_by_urls", "remerged_by_urls", "merged_api", "remerged_api"}

(* C2: the years of the merged record are exactly the union of the years of *)
(* the group's members, in both scripts' merge_organizations; a group with  *)
(* the years {2016, 2018} and {2017, 2018} merges to {2016, 2017, 2018}.    *)
C2_MergedYearsAreUnion ==
    MergeReturned =>
        /\ YearsOf(merged) = UNION {YearsOf(group_orgs[k]) : k \in 1..Len(group_orgs)}
        /\ Len(group_orgs) > 1 =>
              /\ merged.years_appeared = SortedSeq(YearsOf(merged))
              /\ merged.years_count = Cardinality(YearsOf(merged))

C2_Witness ==
    /\ MergeReturned
    /\ Len(group_orgs) = 2
    /\ YearsOf(group_orgs[1]) = {2016, 2018}
    /\ YearsOf(group_orgs[2]) = {2017, 2018}
    /\ merged.years_appeared = <<2016, 2017, 2018>>

(* C7 as stated: merging a single record returns it unchanged, and merging  *)
(* the single merged record of a group returns that merged record, in both  *)
(* scripts' merge_organizations.                                            *)
C7_SingletonMergeIsIdentity ==
    /\ (MergeReturned /\ Len(group_orgs) = 1) => merged = group_orgs[1]
    /\ pc \in {"remerged_by_urls", "remerged_api"} => remerged = merged

(* C7, amended: merge_by_urls.merge_organizations returns a single record   *)
(* unchanged; merge_with_api_names.merge_organizations returns it with its  *)
(* name set to the canonical name and every other field unchanged; in both  *)
(* scripts merging the single merged record of a group (under the same      *)
(* canonical name) returns that merged record.                              *)
C7_SingletonMergeKeepsAllButName ==
    /\ (pc \in {"merged_by_urls", "remerged_by_urls"} /\ Len(group_orgs) = 1)
          => merged = group_orgs[1]
    /\ (pc \in {"merged_api", "remerged_api"} /\ Len(group_orgs) = 1)
          => /\ merged.name = canonical_name
             /\ DOMAIN merged = DOMAIN group_orgs[1] \cup {"name"}
             /\ \A f \in DOMAIN group_orgs[1] \ {"name"} : merged[f] = group_orgs[1][f]
    /\ pc \in {"remerged_by_urls", "remerged_api"} => remerged = merged

C7_Witness ==
    /\ pc = "remerged_api"
    /\ Len(group_orgs) = 1
    /\ "name" \in DOMAIN group_orgs[1]
    /\ group_orgs[1].name # canonical_name
    /\ merged.name = canonical_name
    /\ remerged = merged

(***************************************************************************)
(* difflib.SequenceMatcher(None, a, b).ratio() for strings under 200       *)
(* characters (no automatic junk): 2*M/T, M the characters in the matching *)
(* blocks and T the two lengths together; 1.0 when both are empty.  A      *)
(* ratio is the pair <<numerator, denominator>> and is compared with a     *)
(* threshold by cross-multiplication.                                      *)
(***************************************************************************)
\* the length of the common run of a from p and b from q, within ahi and bhi
RECURSIVE run_length(_, _, _, _, _, _)
run_length(a, b, p, q, ahi, bhi) ==
    IF p <= ahi /\ q <= bhi /\ a[p] = b[q]
    THEN 1 + run_length(a, b, p + 1, q + 1, ahi, bhi)
    ELSE 0

Max(S) == CHOOSE x \in S : \A y \in S : y <= x

\* the longest run that starts at x in a, 0 when there is none
row_run(a, b, x, ahi, blo, bhi) ==
    Max({0} \cup {run_length(a, b, x, y, ahi, bhi) : y \in blo..bhi})

\* a longer run replaces the best; it starts at the earliest y that gives it
longer_of(a, b, x, ahi, blo, bhi, best, k) ==
    IF k > best[3]
    THEN <<x, Min({y \in blo..bhi : run_length(a, b, x, y, ahi, bhi) = k}), k>>
    ELSE best

\* the scan over the starts in a, in order: of the longest blocks the one that
\* starts earliest in a, and of those earliest in b, is kept
RECURSIVE scan_runs(_, _, _, _, _, _, _)
scan_runs(a, b, x, ahi, blo, bhi, best) ==
    IF x > ahi THEN best
    ELSE scan_runs(a, b, x + 1, ahi, blo, bhi,
                   longer_of(a, b, x, ahi, blo, bhi, best,
                             row_run(a, b, x, ahi, blo, bhi)))

\* SequenceMatcher.find_longest_match: <<start in a, start in b, length>>
find_longest_match(a, b, alo, ahi, blo, bhi) ==
    scan_runs(a, b, alo, ahi, blo, bhi, <<alo, blo, 0>>)

\* SequenceMatcher.get_matching_blocks, summed: the longest block, then the
\* blocks to its left and to its right
RECURSIVE matches(_, _, _, _, _, _)
RECURSIVE matches_around(_, _, _, _, _, _, _)
matches_around(a, b, alo, ahi, blo, bhi, m) ==
    IF m[3] = 0 THEN 0
    ELSE m[3] + matches(a, b, alo, m[1] - 1, blo, m[2] - 1)
              + matches(a, b, m[1] + m[3], ahi, m[2] + m[3], bhi)

matches(a, b, alo, ahi, blo, bhi) ==
    IF alo > ahi \/ blo > bhi THEN 0
    ELSE matches_around(a, b, alo, ahi, blo, bhi,
                        find_longest_match(a, b, alo, ahi, blo, bhi))

\* SequenceMatcher.ratio
ratio(a, b) ==
    IF Len(a) + Len(b) = 0 THEN <<1, 1>>
    ELSE <<2 * matches(a, b, 1, Len(a), 1, Len(b)), Len(a) + Len(b)>>

\* r < num/den and r >= num/den
RatioBelow(r, num, den) == r[1] * den < num * r[2]
RatioAtLeast(r, num, den) == r[1] * den >= num * r[2]
\* r > q
RatioAbove(r, q) == r[1] * q[2] > q[1] * r[2]

(***************************************************************************)
(* align_with_api.py: similarity_ratio and are_names_compatible            *)
(***************************************************************************)
similarity_ratio(n1, n2) == ratio(lower(n1), lower(n2))

\* str.split(): the words between runs of whitespace
RECURSIVE split(_)
RECURSIVE split_word(_, _)
split_word(t, n) == <<SubSeq(t, 1, n - 1)>> \o split(SubSeq(t, n, Len(t)))

split_stripped(t) == IF t = <<>> THEN <<>> ELSE split_word(t, FirstOf(t, Whitespace))

split(s) == split_stripped(lstrip(s, Whitespace))

Articles == {<<"t","h","e">>, <<"a">>, <<"a","n">>}

first_of_words(words) == IF words # <<>> THEN words[1] ELSE <<>>

drop_article(words) ==
    IF words # <<>> /\ words[1] \in Articles THEN first_of_words(Tail(words))
    ELSE first_of_words(words)

\* get_first_word: the first word after a leading article
get_first_word(s) == drop_article(split(s))

Suffixes ==
    << <<" ","f","o","u","n","d","a","t","i","o","n">>,
       <<" ","p","r","o","j","e","c","t">>,
       <<" ","i","n","i","t","i","a","t","i","v","e">>,
       <<" ","c","o","m","m","u","n","i","t","y">>,
       <<" ","o","r","g","a","n","i","z","a","t","i","o","n">>,
       <<".","o","r","g">>,
       <<".","c","o","m">>,
       <<" ","g","m","b","h">> >>

S_The == <<"t","h","e"," ">>

\* the loop over the suffixes, in order, each removed from what the last left
RECURSIVE remove_suffixes_from(_, _)
remove_suffixes_from(s, k) ==
    IF k > Len(Suffixes) THEN s
    ELSE IF endswith(s, Suffixes[k])
         THEN remove_suffixes_from(
                  strip(SubSeq(s, 1, Len(s) - Len(Suffixes[k])), Whitespace), k + 1)
         ELSE remove_suffixes_from(s, k + 1)

remove_leading_the(s) ==
    IF startswith(s, S_The) THEN strip(SubSeq(s, 5, Len(s)), Whitespace) ELSE s

remove_suffixes(s) == remove_leading_the(remove_suffixes_from(s, 1))

\* lines 35-38: both first words exist and their similarity is below 0.50
words_differ(word1, word2) ==
    word1 # <<>> /\ word2 # <<>> /\ RatioBelow(similarity_ratio(word1, word2), 50, 100)

\* lines 54-57: both cores exist and their similarity is below 0.60
cores_differ(core1, core2) ==
    core1 # <<>> /\ core2 # <<>> /\ RatioBelow(similarity_ratio(core1, core2), 60, 100)

compatible_normalized(n1, n2) ==
    /\ ~words_differ(get_first_word(n1), get_first_word(n2))
    /\ ~cores_differ(remove_suffixes(n1), remove_suffixes(n2))

\* are_names_compatible without the comparison of the cores
are_names_compatible_by_words(n1, n2) ==
    ~words_differ(get_first_word(strip(lower(n1), Whitespace)),
                  get_first_word(strip(lower(n2), Whitespace)))

are_names_compatible(n1, n2) ==
    compatible_normalized(strip(lower(n1), Whitespace), strip(lower(n2), Whitespace))

N_CephFoundationLower == <<"C","e","p","h"," ","f","o","u","n","d","a","t","i","o","n">>
N_TheDebianProject == <<"T","h","e"," ","D","e","b","i","a","n"," ","P","r","o","j","e","c","t">>
N_DebianProject == <<"D","e","b","i","a","n"," ","P","r","o","j","e","c","t">>
N_The == <<"T","h","e">>

NamePool ==
    {N_Debian, N_PEcAn, N_Kodi, N_KodiFoundation, N_XBMCFoundation, N_AboutCodeOrg,
     N_AboutCode, N_Ceph, N_CephFoundation, N_CephFoundationLower, N_TheDebianProject,
     N_DebianProject, N_The, <<>>}

InitNames ==
    /\ pc = "names"
    /\ i = 1
    /\ name1 \in NamePool
    /\ name2 \in NamePool
    /\ compat = None
    /\ GroupingIdle /\ MergeIdle /\ api_orgs = <<>> /\ AlignIdle /\ CompareIdle /\ MatchIdle

\* are_names_compatible(name1, name2)
AreNamesCompatible ==
    /\ pc = "names"
    /\ pc' = "compared"
    /\ compat' = are_names_compatible(name1, name2)
    /\ UNCHANGED <<i, gvars, mvars, avars, cvars, name1, name2, query_name, threshold,
                   api_match, docs, thresh, used, name_groups, dvars, zvars>>

NextNames == AreNamesCompatible

SpecNames == InitNames /\ [][NextNames]_vars

DebianPEcAnCompared == pc = "compared" /\ name1 = N_Debian /\ name2 = N_PEcAn

word_similarity(n1, n2) ==
    similarity_ratio(get_first_word(strip(lower(n1), Whitespace)),
                     get_first_word(strip(lower(n2), Whitespace)))

core_similarity(n1, n2) ==
    similarity_ratio(remove_suffixes(strip(lower(n1), Whitespace)),
                     remove_suffixes(strip(lower(n2), Whitespace)))

(* C10 as stated: are_names_compatible("Debian", "PEcAn") is false, and the *)
(* similarity of the two first significant tokens is below 0.50.            *)
C10_DebianPEcAnRejectedByFirstToken ==
    DebianPEcAnCompared =>
        /\ compat = FALSE
        /\ RatioBelow(word_similarity(name1, name2), 50, 100)

(* C10, amended: are_names_compatible("Debian", "PEcAn") is false; the      *)
(* similarity of the first significant tokens is 6/11, not below 0.50, and  *)
(* the pair is rejected because the similarity of the cores, 6/11, is below *)
(* 0.60.                                                                    *)
C10_DebianPEcAnRejectedByCore ==
    DebianPEcAnCompared =>
        /\ compat = FALSE
        /\ word_similarity(name1, name2) = <<6, 11>>
        /\ RatioAtLeast(word_similarity(name1, name2), 50, 100)
        /\ core_similarity(name1, name2) = <<6, 11>>
        /\ RatioBelow(core_similarity(name1, name2), 60, 100)

C10_Witness == DebianPEcAnCompared /\ compat = FALSE

(***************************************************************************)
(* align_with_api.py: find_best_api_match, the alias table, the match loop *)
(* of main and merge_orgs_for_api_match.  An authoritative record is       *)
(* [name, years], years being the keys of its 'years' dict (strings), or   *)
(* [name] alone.                                                           *)
(***************************************************************************)
\* the loop of lines 69-77: best_match is an index into api, 0 for None
RECURSIVE best_api_match(_, _, _, _, _)
RECURSIVE better_api_match(_, _, _, _, _, _)
\* a candidate as similar as the best so far replaces it
better_api_match_or_equal(our_org_name, api, k, best_match, best_ratio, r) ==
    IF ~RatioAbove(best_ratio, r)
    THEN best_api_match(our_org_name, api, k + 1, k, r)
    ELSE best_api_match(our_org_name, api, k + 1, best_match, best_ratio)

better_api_match(our_org_name, api, k, best_match, best_ratio, r) ==
    IF RatioAbove(r, best_ratio)
    THEN best_api_match(our_org_name, api, k + 1, k, r)
    ELSE best_api_match(our_org_name, api, k + 1, best_match, best_ratio)

best_api_match(our_org_name, api, k, best_match, best_ratio) ==
    IF k > Len(api) THEN [match |-> best_match, ratio |-> best_ratio]
    ELSE IF are_names_compatible(our_org_name, api[k].name)
         THEN better_api_match(our_org_name, api, k, best_match, best_ratio,
                               similarity_ratio(our_org_name, api[k].name))
         ELSE best_api_match(our_org_name, api, k + 1, best_match, best_ratio)

\* lines 79-82: the best match is returned when its ratio is at least the threshold
at_threshold_of(best, t) ==
    IF RatioAtLeast(best.ratio, t[1], t[2]) THEN best ELSE [match |-> 0, ratio |-> <<0, 1>>]

find_best_api_match_at(our_org_name, api, t) ==
    at_threshold_of(best_api_match(our_org_name, api, 1, 0, <<0, 1>>), t)

\* threshold=0.88, the default, which is what main passes
at_threshold(best) == at_threshold_of(best, <<88, 100>>)

find_best_api_match(our_org_name, api) ==
    at_threshold(best_api_match(our_org_name, api, 1, 0, <<0, 1>>))

\* manual_mappings, its entries whose key is one of the names used here
manual_mappings ==
    (N_AboutCodeOrg :> N_AboutCode) @@ (N_Ceph :> N_CephFoundation)
    @@ (N_CephFoundation :> N_CephFoundation) @@ (N_Debian :> N_Debian)
    @@ (N_DebianProject :> N_Debian) @@ (N_KodiFoundation :> N_Kodi)
    @@ (N_XBMCFoundation :> N_Kodi)

\* the keys of api_by_name
api_names(api) == {api[k].name : k \in 1..Len(api)}

fuzzy_name(api, m) == IF m.match # 0 THEN api[m.match].name ELSE None

\* exact match before the alias table
resolve_exact_first(our_name, api) ==
    IF our_name \in api_names(api) THEN our_name
    ELSE IF our_name \in DOMAIN manual_mappings /\ manual_mappings[our_name] \in api_names(api)
         THEN manual_mappings[our_name]
         ELSE fuzzy_name(api, find_best_api_match(our_name, api))

\* lines 184-205: the authoritative name a record is assigned to, None when unmatched
resolve(our_name, api) ==
    IF our_name \in DOMAIN manual_mappings /\ manual_mappings[our_name] \in api_names(api)
    THEN manual_mappings[our_name]
    ELSE IF our_name \in api_names(api) THEN our_name
         ELSE fuzzy_name(api, find_best_api_match(our_name, api))

\* api_groups[name].append(org) on a defaultdict(list)
append_to(d, name, org) ==
    [n \in DOMAIN d \cup {name} |->
        IF n = name THEN (IF n \in DOMAIN d THEN d[n] ELSE <<>>) \o <<org>> ELSE d[n]]

\* int(y) for a string of digits
DigitValue(c) == (CHOOSE k \in DOMAIN Digits : Digits[k] = c) - 1

RECURSIVE int(_)
int(y) == IF y = <<>> THEN 0 ELSE 10 * int(SubSeq(y, 1, Len(y) - 1)) + DigitValue(y[Len(y)])

\* set(int(y) for y in api_org.get('years', {}).keys())
api_year_set(api_org) ==
    IF "years" \in DOMAIN api_org THEN {int(api_org.years[k]) : k \in DOMAIN api_org.years}
    ELSE {}

\* the years of the first member only
first_match_years(matching) ==
    IF "years_appeared" \in DOMAIN matching[1] THEN Range(matching[1].years_appeared) ELSE {}

\* lines 283-286: the years of the members whose years_appeared is present and not empty
api_match_years(matching) ==
    UNION {Range(matching[k].years_appeared) :
              k \in {j \in 1..Len(matching) : "years_appeared" \in DOMAIN matching[j]}}

\* lines 334-343: the website of the last later member with an https website,
\* else the first member's
RECURSIVE api_match_website(_, _, _)
api_match_website(matching, k, website) ==
    IF k > Len(matching) THEN website
    ELSE IF /\ Truthy(Get(matching[k], "website"))
            /\ startswith(matching[k].website, S_Https)
         THEN api_match_website(matching, k + 1, matching[k].website)
         ELSE api_match_website(matching, k + 1, website)

\* merge_orgs_for_api_match, over the modelled fields
merge_orgs_for_api_match(api_org, matching) ==
    [name           |-> api_org.name,
     years_appeared |-> SortedSeq(api_match_years(matching)),
     years_count    |-> Cardinality(api_match_years(matching)),
     appearances    |-> merged_appearances(matching),
     _id            |-> Get(matching[1], "_id"),
     website        |-> api_match_website(matching, 2, Get(matching[1], "website")),
     socials        |-> socials_of(matching[1])]

(***************************************************************************)
(* align_with_api.main                                                     *)
(***************************************************************************)
Y2014 == <<"2","0","1","4">>
Y2015 == <<"2","0","1","5">>
Y2016 == <<"2","0","1","6">>
Y2017 == <<"2","0","1","7">>
Y2018 == <<"2","0","1","8">>
Y2019 == <<"2","0","1","9">>
Y2020 == <<"2","0","2","0">>

A_Kodi == [name |-> N_Kodi, years |-> <<Y2014, Y2015, Y2016, Y2017, Y2018, Y2019, Y2020>>]

ApiPool == <<
    [name |-> N_Ceph, years |-> <<Y2019>>],
    [name |-> N_CephFoundation, years |-> <<Y2019, Y2016>>],
    [name |-> N_AboutCode] >>

\* merged records as merge_by_urls saves them: every one has a name
OurPool == <<
    [name |-> N_AboutCodeOrg, website |-> U_MediumA, years_appeared |-> <<2016>>],
    [name |-> N_Ceph, website |-> U_KodiHttp,
     socials |-> [github |-> U_GithubXbmc, twitter |-> None, other |-> <<U_KodiWww>>],
     years_appeared |-> <<2019>>],
    [name |-> N_CephFoundationLower, website |-> U_MediumB, years_appeared |-> <<2016>>],
    [name |-> N_DebianProject, website |-> U_KodiHttp] >>

MaxApi == 2
MaxOur == 2

\* the lists of at most n distinct records of a pool
DistinctLists(pool, n) ==
    UNION {{[k \in 1..m |-> pool[c[k]]] :
              c \in {d \in [1..m -> DOMAIN pool] : \A x, y \in 1..m : x # y => d[x] # d[y]}} :
           m \in 0..n}

InitAlign ==
    /\ pc = "match"
    /\ i = 1
    /\ api_orgs \in DistinctLists(ApiPool, MaxApi)
    /\ our_orgs \in RecordLists(OurPool, MaxOur)
    /\ api_groups = EmptyDict
    /\ unmatched_orgs = <<>>
    /\ aligned_orgs = <<>>
    /\ GroupingIdle /\ MergeIdle /\ CompareIdle /\ NamesIdle

\* lines 181-205, one record: alias, then exact, then fuzzy, else unmatched
match_org(org, target) ==
    IF target = None
    THEN unmatched_orgs' = Append(unmatched_orgs, org) /\ UNCHANGED api_groups
    ELSE api_groups' = append_to(api_groups, target, org) /\ UNCHANGED unmatched_orgs

MatchOrg ==
    /\ pc = "match"
    /\ i <= Len(our_orgs)
    /\ match_org(our_orgs[i], resolve(our_orgs[i].name, api_orgs))
    /\ i' = i + 1
    /\ UNCHANGED <<pc, gvars, mvars, api_orgs, our_orgs, aligned_orgs, cvars, nvars>>

\* lines 207-213: the first ten unmatched records are printed with their years
PrintUnmatched ==
    /\ pc = "match"
    /\ i > Len(our_orgs)
    /\ IF \E k \in 1..Len(unmatched_orgs) :
             k <= 10 /\ "years_appeared" \notin DOMAIN unmatched_orgs[k]
       THEN pc' = "raised" /\ UNCHANGED i
       ELSE pc' = "build" /\ i' = 1
    /\ UNCHANGED <<gvars, mvars, avars, cvars, nvars>>

\* an authoritative record with no record assigned gets an entry made of its own data
BuildAlignedOrPlaceholder ==
    /\ pc = "build"
    /\ i <= Len(api_orgs)
    /\ IF api_orgs[i].name \in DOMAIN api_groups
       THEN aligned_orgs' = Append(aligned_orgs,
                merge_orgs_for_api_match(api_orgs[i], api_groups[api_orgs[i].name]))
       ELSE aligned_orgs' = Append(aligned_orgs,
                [name |-> api_orgs[i].name,
                 years_appeared |-> SortedSeq(api_year_set(api_orgs[i]))])
    /\ i' = i + 1
    /\ UNCHANGED <<pc, gvars, mvars, api_orgs, our_orgs, api_groups, unmatched_orgs,
                   cvars, nvars>>

\* lines 219-233, one authoritative record: the records assigned to it are merged
BuildAligned ==
    /\ pc = "build"
    /\ i <= Len(api_orgs)
    /\ IF api_orgs[i].name \in DOMAIN api_groups
       THEN aligned_orgs' = Append(aligned_orgs,
                merge_orgs_for_api_match(api_orgs[i], api_groups[api_orgs[i].name]))
       ELSE UNCHANGED aligned_orgs
    /\ i' = i + 1
    /\ UNCHANGED <<pc, gvars, mvars, api_orgs, our_orgs, api_groups, unmatched_orgs,
                   cvars, nvars>>

\* the output sorted by name, the unmatched records left out
SortWithoutUnmatched ==
    /\ pc = "build"
    /\ i > Len(api_orgs)
    /\ aligned_orgs' = SortBy(aligned_orgs, name_lower_less)
    /\ pc' = "aligned"
    /\ UNCHANGED <<i, gvars, mvars, api_orgs, our_orgs, api_groups, unmatched_orgs,
                   cvars, nvars>>

\* lines 236-241: the unmatched records are appended and the output sorted by name
AddUnmatchedAndSort ==
    /\ pc = "build"
    /\ i > Len(api_orgs)
    /\ aligned_orgs' = SortBy(aligned_orgs \o unmatched_orgs, name_lower_less)
    /\ pc' = "aligned"
    /\ UNCHANGED <<i, gvars, mvars, api_orgs, our_orgs, api_groups, unmatched_orgs,
                   cvars, nvars>>

NextAlign == MatchOrg \/ PrintUnmatched \/ BuildAligned \/ AddUnmatchedAndSort

SpecAlign == InitAlign /\ [][NextAlign]_vars

\* the match loop is past record k
Matched(k) == k \in 1..Len(our_orgs) /\ (pc = "match" => k < i)

\* the match loop is running, or has just ended, and is past record k
MatchedInLoop(k) == pc = "match" /\ k \in 1..Len(our_orgs) /\ k < i

\* the authoritative name record k was assigned to, None when it is unmatched
AssignedTo(k) ==
    IF \E n \in DOMAIN api_groups : our_orgs[k] \in Range(api_groups[n])
    THEN CHOOSE n \in DOMAIN api_groups : our_orgs[k] \in Range(api_groups[n])
    ELSE None

\* record k is in exactly one place: one list of api_groups or unmatched_orgs
AssignedOnce(k) ==
    Cardinality({n \in DOMAIN api_groups : our_orgs[k] \in Range(api_groups[n])})
      + (IF our_orgs[k] \in Range(unmatched_orgs) THEN 1 ELSE 0) = 1

IsAliasKey(name) == name \in DOMAIN manual_mappings
IsApiName(name) == \E k \in 1..Len(api_orgs) : api_orgs[k].name = name
FuzzyTarget(name) == fuzzy_name(api_orgs, find_best_api_match(name, api_orgs))

(* C5 as stated: every record is resolved by the alias table, then the      *)
(* exact name, then the fuzzy match, the first that applies winning; a      *)
(* record whose name is a key of the alias table is assigned to the alias   *)
(* target.                                                                  *)
C5_AliasKeyAssignedToTarget ==
    \A k \in 1..Len(our_orgs) :
        /\ Matched(k) => AssignedOnce(k)
        /\ MatchedInLoop(k) => AssignedTo(k) =
             IF IsAliasKey(our_orgs[k].name) THEN manual_mappings[our_orgs[k].name]
             ELSE IF IsApiName(our_orgs[k].name) THEN our_orgs[k].name
             ELSE FuzzyTarget(our_orgs[k].name)

(* C5, amended: the alias step applies to a record whose name is a key of   *)
(* the alias table and whose alias target is an authoritative name, and     *)
(* then wins over an exact or fuzzy match; otherwise the exact name is      *)
(* tried, and the fuzzy match only when neither applies.                    *)
C5_AliasToAuthoritativeTargetFirst ==
    \A k \in 1..Len(our_orgs) :
        /\ Matched(k) => AssignedOnce(k)
        /\ MatchedInLoop(k) => AssignedTo(k) =
             IF /\ IsAliasKey(our_orgs[k].name)
                /\ IsApiName(manual_mappings[our_orgs[k].name])
             THEN manual_mappings[our_orgs[k].name]
             ELSE IF IsApiName(our_orgs[k].name) THEN our_orgs[k].name
             ELSE FuzzyTarget(our_orgs[k].name)

\* "Ceph" goes to its alias target "Ceph Foundation" although "Ceph" is an
\* authoritative name too
C5_Witness ==
    /\ pc = "aligned"
    /\ IsApiName(N_Ceph) /\ IsApiName(N_CephFoundation)
    /\ \E k \in 1..Len(our_orgs) :
          our_orgs[k].name = N_Ceph /\ AssignedTo(k) = N_CephFoundation

(***************************************************************************)
(* find_best_api_match applied to one name, one list of candidates and one *)
(* threshold.                                                              *)
(***************************************************************************)
MatchPool == <<
    [name |-> N_CephFoundation],
    [name |-> N_CephFoundationLower],
    [name |-> N_PEcAn],
    [name |-> N_TheDebianProject],
    [name |-> N_Ceph] >>

QueryNames == {N_Debian, N_Ceph, N_CephFoundation, N_DebianProject, N_PEcAn, <<>>}

\* 0.88 is the default; 0 and 1 are the ends of the range of a ratio
Thresholds == {<<0, 1>>, <<2, 5>>, <<88, 100>>, <<1, 1>>}

InitMatch ==
    /\ pc = "find_best_api_match"
    /\ i = 1
    /\ query_name \in QueryNames
    /\ api_orgs \in DistinctLists(MatchPool, MaxApi)
    /\ threshold \in Thresholds
    /\ api_match = None
    /\ name1 = None /\ name2 = None /\ compat = None /\ FuzzyIdle
    /\ GroupingIdle /\ MergeIdle /\ AlignIdle /\ CompareIdle

\* find_best_api_match(query_name, api_orgs, threshold)
FindBestApiMatch ==
    /\ pc = "find_best_api_match"
    /\ pc' = "matched"
    /\ api_match' = find_best_api_match_at(query_name, api_orgs, threshold)
    /\ UNCHANGED <<i, gvars, mvars, avars, cvars, name1, name2, compat, query_name,
                   threshold, docs, thresh, used, name_groups, dvars, zvars>>

NextMatch == FindBestApiMatch

SpecMatch == InitMatch /\ [][NextMatch]_vars

FindReturned == pc = "matched"
Candidates == 1..Len(api_orgs)
SimilarityTo(k) == similarity_ratio(query_name, api_orgs[k].name)
CompatibleWith(k) == are_names_compatible(query_name, api_orgs[k].name)
Compatibles == {k \in Candidates : CompatibleWith(k)}
SameRatio(r, q) == r[1] * q[2] = q[1] * r[2]

\* candidate k is compatible, reaches the threshold, and no compatible
\* candidate is strictly more similar
BestAtThreshold(k) ==
    /\ k \in Compatibles
    /\ RatioAtLeast(SimilarityTo(k), threshold[1], threshold[2])
    /\ \A j \in Compatibles : ~RatioAbove(SimilarityTo(j), SimilarityTo(k))

(* C11: find_best_api_match returns a candidate only if it is compatible   *)
(* with the name, its similarity reaches the threshold and no compatible   *)
(* candidate is strictly more similar; of the compatible candidates tied   *)
(* at the maximum it returns the first in candidate order, with its        *)
(* similarity as the confidence; otherwise it returns (None, 0), and it    *)
(* does return a candidate whenever one of positive similarity qualifies.  *)
C11_BestCompatibleAtThresholdFirstOfTies ==
    FindReturned =>
        IF api_match.match # 0
        THEN /\ api_match.match \in Candidates
             /\ BestAtThreshold(api_match.match)
             /\ \A j \in Compatibles :
                   j < api_match.match =>
                       RatioAbove(SimilarityTo(api_match.match), SimilarityTo(j))
             /\ SameRatio(api_match.ratio, SimilarityTo(api_match.match))
        ELSE /\ api_match.ratio = <<0, 1>>
             /\ \A k \in Candidates :
                   BestAtThreshold(k) => ~RatioAbove(SimilarityTo(k), <<0, 1>>)

\* "Ceph Foundation" against two candidates of similarity 1: the first is returned
C11_Witness ==
    /\ FindReturned
    /\ Len(api_orgs) = 2
    /\ BestAtThreshold(1) /\ BestAtThreshold(2)
    /\ api_match.match = 1
    /\ threshold = <<88, 100>>

(***************************************************************************)
(* The comparison scripts: final_comparison.py, final_comparison_report.py *)
(* and compare_url_merged_with_api.py.  Each classifies every              *)
(* authoritative record against the candidate of its name, then prints a   *)
(* summary that divides by the number of authoritative records.            *)
(***************************************************************************)
\* our_org.get('years_appeared', [])
years_or_empty(org) == IF "years_appeared" \in DOMAIN org THEN org.years_appeared ELSE <<>>

\* a candidate is looked up only when it has years
in_by_name_with_years(cands, name) ==
    \E k \in 1..Len(cands) : cands[k].name = name /\ years_or_empty(cands[k]) # <<>>

\* name in final_by_name
in_by_name(cands, name) == \E k \in 1..Len(cands) : cands[k].name = name

\* final_by_name[name]: of the candidates of one name the dict keeps the last
by_name(cands, name) == cands[Max({k \in 1..Len(cands) : cands[k].name = name})]

IntLess(x, y) == x < y

\* sorted(list) of integers
sorted(years) == SortBy(years, IntLess)

\* final_comparison.py lines 46-54: the entry of a year mismatch
fc_mismatch(name, A, our_years) ==
    [name      |-> name,
     api_years |-> SortedSeq(A),
     our_years |-> sorted(our_years),
     missing   |-> SortedSeq(A \ Range(our_years)),
     extra     |-> SortedSeq(Range(our_years) \ A),
     match_pct |-> (Cardinality(A \cap Range(our_years)) * 100)
                     \div Max({Cardinality(A \cup Range(our_years)), 1})]

\* the years counted as the lists hold them, a year listed twice counted twice
fcr_mismatch_by_lists(name, A, our_years) ==
    [name          |-> name,
     api_years     |-> SortedSeq(A),
     our_years     |-> sorted(our_years),
     missing       |-> SortedSeq(A \ Range(our_years)),
     extra         |-> SortedSeq(Range(our_years) \ A),
     match_percent |-> (Cardinality(A \cap Range(our_years)) * 100)
                         \div (Cardinality(A) + Len(our_years)
                                  - Cardinality(A \cap Range(our_years)))]

\* the percentage taken of the candidate's years, not of the union
fcr_mismatch_over_ours(name, A, our_years) ==
    [name          |-> name,
     api_years     |-> SortedSeq(A),
     our_years     |-> sorted(our_years),
     missing       |-> SortedSeq(A \ Range(our_years)),
     extra         |-> SortedSeq(Range(our_years) \ A),
     match_percent |-> (Cardinality(A \cap Range(our_years)) * 100)
                         \div Max({Cardinality(Range(our_years)), 1})]

\* final_comparison_report.py lines 65-73: no guard on the divisor
fcr_mismatch(name, A, our_years) ==
    [name          |-> name,
     api_years     |-> SortedSeq(A),
     our_years     |-> sorted(our_years),
     missing       |-> SortedSeq(A \ Range(our_years)),
     extra         |-> SortedSeq(Range(our_years) \ A),
     match_percent |-> (Cardinality(A \cap Range(our_years)) * 100)
                         \div Cardinality(A \cup Range(our_years))]

\* compare_url_merged_with_api.py lines 42-48
cum_mismatch(name, A, our_years) ==
    [name      |-> name,
     api_years |-> SortedSeq(A),
     our_years |-> sorted(our_years),
     missing   |-> SortedSeq(A \ Range(our_years)),
     extra     |-> SortedSeq(Range(our_years) \ A)]

\* compare_url_merged_with_api.py line 66: the percentage printed for a mismatch
cum_match_pct(m) ==
    (Cardinality(Range(m.api_years) \cap Range(m.our_years)) * 100)
        \div Max({Cardinality(Range(m.api_years) \cup Range(m.our_years)), 1})

\* lines 65-67: the percentages of the first twenty mismatches, as printed
cum_printed(mismatches) ==
    [k \in 1..Min({20, Len(mismatches)}) |-> cum_match_pct(mismatches[k])]

\* name, years and count of an entry of the report
fcr_entry(name, A) == [name |-> name, years |-> SortedSeq(A), count |-> Cardinality(A)]

\* the sort keys of the mismatches, most severe first
more_missing(x, y) == Len(x.missing) > Len(y.missing)
more_severe(x, y) == Len(x.missing) + Len(x.extra) > Len(y.missing) + Len(y.extra)
entry_name_less(x, y) == StrLess(x.name, y.name)

\* final_comparison_report.py lines 82-89: the candidates of no authoritative name
RECURSIVE only_in_ours_of(_, _, _)
only_in_ours_of(cands, api, k) ==
    IF k > Len(cands) THEN <<>>
    ELSE (IF in_by_name(api, cands[k].name) THEN <<>>
          ELSE << [name  |-> cands[k].name,
                   years |-> sorted(years_or_empty(cands[k])),
                   count |-> IF "years_count" \in DOMAIN cands[k]
                             THEN cands[k].years_count ELSE 0] >>)
         \o only_in_ours_of(cands, api, k + 1)

C_Kodi == [name |-> N_Kodi, years_appeared |-> <<2014, 2015, 2016, 2017, 2018, 2019, 2020>>]

CompareApiPool == <<
    A_Kodi,
    [name |-> N_CephFoundation, years |-> <<Y2019, Y2016>>],
    [name |-> N_AboutCode] >>

\* candidates as the data model has them: a name and the years
CandidatePool == <<
    C_Kodi,
    [name |-> N_Kodi, years_appeared |-> <<2018, 2016>>],
    [name |-> N_AboutCode, years_appeared |-> <<>>],
    [name |-> N_AboutCode, years_appeared |-> <<2016>>],
    [name |-> N_PEcAn, years_appeared |-> <<2019>>, years_count |-> 1],
    [name |-> N_CephFoundation, years_appeared |-> <<2016, 2017, 2016>>] >>

MaxCandidates == 2

\* the lists of at most n records of a pool
Lists(pool, n) == UNION {{[k \in 1..m |-> pool[c[k]]] : c \in [1..m -> DOMAIN pool]} : m \in 0..n}

InitCompare ==
    /\ pc \in {"final_comparison", "final_comparison_report", "compare_url_merged_with_api"}
    /\ i = 1
    /\ api_orgs \in Lists(CompareApiPool, MaxApi)
    /\ final_orgs \in Lists(CandidatePool, MaxCandidates)
    /\ perfect_matches = <<>>
    /\ year_mismatches = <<>>
    /\ missing_from_ours = <<>>
    /\ only_in_ours = <<>>
    /\ report = None
    /\ GroupingIdle /\ MergeIdle /\ AlignIdle /\ NamesIdle

\* final_comparison.py lines 31-55, one authoritative record
final_comparison_entry(name, A) ==
    IF ~in_by_name(final_orgs, name)
    THEN /\ missing_from_ours' = Append(missing_from_ours, [name |-> name, years |-> SortedSeq(A)])
         /\ UNCHANGED <<perfect_matches, year_mismatches>>
    ELSE IF A = Range(by_name(final_orgs, name).years_appeared)
    THEN /\ perfect_matches' = Append(perfect_matches, name)
         /\ UNCHANGED <<year_mismatches, missing_from_ours>>
    ELSE /\ year_mismatches' = Append(year_mismatches,
                fc_mismatch(name, A, by_name(final_orgs, name).years_appeared))
         /\ UNCHANGED <<perfect_matches, missing_from_ours>>

FinalComparisonClassify ==
    /\ pc = "final_comparison"
    /\ i <= Len(api_orgs)
    /\ final_comparison_entry(api_orgs[i].name, api_year_set(api_orgs[i]))
    /\ i' = i + 1
    /\ UNCHANGED <<pc, gvars, mvars, avars, final_orgs, only_in_ours, report, nvars>>

\* the counts of the summary
counts(perfect, mismatch, missing) ==
    [perfect |-> perfect, mismatch |-> mismatch, missing |-> missing]

\* the counts, and the percentages compare_url_merged_with_api prints below them
counts_and_pcts(c, mismatches) ==
    [perfect |-> c.perfect, mismatch |-> c.mismatch, missing |-> c.missing,
     match_pct |-> cum_printed(mismatches)]

\* final_comparison.py lines 57-85: the summary divides by len(api_orgs); the
\* mismatches are then sorted by their missing years
FinalComparisonSummary ==
    /\ pc = "final_comparison"
    /\ i > Len(api_orgs)
    /\ IF Len(api_orgs) = 0
       THEN pc' = "raised" /\ UNCHANGED <<year_mismatches, report>>
       ELSE /\ pc' = "final_comparison_reported"
            /\ report' = counts(Len(perfect_matches), Len(year_mismatches),
                                Len(missing_from_ours))
            /\ year_mismatches' = SortBy(year_mismatches, more_missing)
    /\ UNCHANGED <<i, gvars, mvars, avars, final_orgs, perfect_matches, missing_from_ours,
                   only_in_ours, nvars>>

\* final_comparison_report.py lines 50-79, one authoritative record
final_comparison_report_entry(name, A) ==
    IF ~in_by_name(final_orgs, name)
    THEN /\ missing_from_ours' = Append(missing_from_ours, fcr_entry(name, A))
         /\ UNCHANGED <<perfect_matches, year_mismatches>>
    ELSE IF A = Range(years_or_empty(by_name(final_orgs, name)))
    THEN /\ perfect_matches' = Append(perfect_matches, fcr_entry(name, A))
         /\ UNCHANGED <<year_mismatches, missing_from_ours>>
    ELSE /\ year_mismatches' = Append(year_mismatches,
                fcr_mismatch(name, A, years_or_empty(by_name(final_orgs, name))))
         /\ UNCHANGED <<perfect_matches, missing_from_ours>>

FinalComparisonReportClassify ==
    /\ pc = "final_comparison_report"
    /\ i <= Len(api_orgs)
    /\ final_comparison_report_entry(api_orgs[i].name, api_year_set(api_orgs[i]))
    /\ i' = i + 1
    /\ UNCHANGED <<pc, gvars, mvars, avars, final_orgs, only_in_ours, report, nvars>>

\* final_comparison_report.py lines 81-104: the candidates only in ours, the
\* sorts, and the summary that divides by len(api_orgs)
FinalComparisonReportSummary ==
    /\ pc = "final_comparison_report"
    /\ i > Len(api_orgs)
    /\ only_in_ours' = SortBy(only_in_ours_of(final_orgs, api_orgs, 1), entry_name_less)
    /\ year_mismatches' = SortBy(year_mismatches, more_severe)
    /\ missing_from_ours' = SortBy(missing_from_ours, entry_name_less)
    /\ IF Len(api_orgs) = 0
       THEN pc' = "raised" /\ UNCHANGED report
       ELSE /\ pc' = "final_comparison_report_reported"
            /\ report' = counts(Len(perfect_matches), Len(year_mismatches),
                                Len(missing_from_ours))
    /\ UNCHANGED <<i, gvars, mvars, avars, final_orgs, perfect_matches, nvars>>

\* compare_url_merged_with_api.py lines 30-48, one authoritative record
compare_url_merged_entry(name, A) ==
    IF ~in_by_name(final_orgs, name)
    THEN UNCHANGED <<perfect_matches, year_mismatches>>
    ELSE IF A = Range(by_name(final_orgs, name).years_appeared)
    THEN perfect_matches' = Append(perfect_matches, name) /\ UNCHANGED year_mismatches
    ELSE /\ year_mismatches' = Append(year_mismatches,
                cum_mismatch(name, A, by_name(final_orgs, name).years_appeared))
         /\ UNCHANGED perfect_matches

CompareUrlMergedClassify ==
    /\ pc = "compare_url_merged_with_api"
    /\ i <= Len(api_orgs)
    /\ compare_url_merged_entry(api_orgs[i].name, api_year_set(api_orgs[i]))
    /\ i' = i + 1
    /\ UNCHANGED <<pc, gvars, mvars, avars, final_orgs, missing_from_ours, only_in_ours,
                   report, nvars>>

\* compare_url_merged_with_api.py lines 50-67: the missing count is what is left;
\* the mismatches are sorted and the first twenty printed with their percentage
CompareUrlMergedSummary ==
    /\ pc = "compare_url_merged_with_api"
    /\ i > Len(api_orgs)
    /\ IF Len(api_orgs) = 0
       THEN pc' = "raised" /\ UNCHANGED <<year_mismatches, report>>
       ELSE /\ pc' = "compare_url_merged_with_api_reported"
            /\ report' = counts_and_pcts(
                            counts(Len(perfect_matches), Len(year_mismatches),
                                   Len(api_orgs) - Len(perfect_matches)
                                     - Len(year_mismatches)),
                            SortBy(year_mismatches, more_severe))
            /\ year_mismatches' = SortBy(year_mismatches, more_severe)
    /\ UNCHANGED <<i, gvars, mvars, avars, final_orgs, perfect_matches, missing_from_ours,
                   only_in_ours, nvars>>

NextCompare ==
    \/ FinalComparisonClassify \/ FinalComparisonSummary
    \/ FinalComparisonReportClassify \/ FinalComparisonReportSummary
    \/ CompareUrlMergedClassify \/ CompareUrlMergedSummary

SpecCompare == InitCompare /\ [][NextCompare]_vars

InFinalComparison == pc \in {"final_comparison", "final_comparison_reported"}
InFinalComparisonReport ==
    pc \in {"final_comparison_report", "final_comparison_report_reported"}
InCompareUrlMerged ==
    pc \in {"compare_url_merged_with_api", "compare_url_merged_with_api_reported"}
Comparing == InFinalComparison \/ InFinalComparisonReport \/ InCompareUrlMerged
Reported ==
    pc \in {"final_comparison_reported", "final_comparison_report_reported",
            "compare_url_merged_with_api_reported"}

\* the authoritative records the classification loop is past
Classified ==
    {k \in 1..Len(api_orgs) :
        pc \in {"final_comparison", "final_comparison_report",
                "compare_url_merged_with_api"} => k < i}

\* the class of authoritative record k, judged on the candidate the lookup
\* holds for its name (the last candidate of that name)
HasCandidate(name) == \E k \in 1..Len(final_orgs) : final_orgs[k].name = name
CandidateYears(name) ==
    YearsOf(final_orgs[CHOOSE k \in 1..Len(final_orgs) :
                /\ final_orgs[k].name = name
                /\ \A j \in (k + 1)..Len(final_orgs) : final_orgs[j].name # name])
ClassOf(k) ==
    IF ~HasCandidate(api_orgs[k].name) THEN "missing"
    ELSE IF api_year_set(api_orgs[k]) = CandidateYears(api_orgs[k].name) THEN "perfect"
    ELSE "mismatch"

\* the names placed in the three classes, in the order of the lists
PerfectNames ==
    IF InFinalComparisonReport
    THEN [k \in DOMAIN perfect_matches |-> perfect_matches[k].name]
    ELSE perfect_matches
MismatchNames == [k \in DOMAIN year_mismatches |-> year_mismatches[k].name]
MissingNames == [k \in DOMAIN missing_from_ours |-> missing_from_ours[k].name]

Count(seq, x) == Cardinality({k \in DOMAIN seq : seq[k] = x})
ClassCount(name, class) ==
    Cardinality({k \in Classified : api_orgs[k].name = name /\ ClassOf(k) = class})
MissingCount ==
    IF InCompareUrlMerged
    THEN Cardinality({k \in Classified : ClassOf(k) = "missing"})
    ELSE Len(missing_from_ours)

(* C4: every authoritative entry the comparison has classified is in        *)
(* exactly one of perfect-match, year-mismatch and missing, the one its     *)
(* candidate and year sets decide, so the three counts sum to the number of *)
(* entries classified and, in the report, to N; in all three scripts.       *)
C4_ClassificationExhaustiveExclusive ==
    /\ Comparing =>
        /\ \A name \in {api_orgs[k].name : k \in 1..Len(api_orgs)} :
              /\ Count(PerfectNames, name) = ClassCount(name, "perfect")
              /\ Count(MismatchNames, name) = ClassCount(name, "mismatch")
              /\ ~InCompareUrlMerged =>
                    Count(MissingNames, name) = ClassCount(name, "missing")
        /\ Len(perfect_matches) + Len(year_mismatches) + MissingCount
              = Cardinality(Classified)
    /\ Reported =>
        /\ report.perfect = Len(perfect_matches)
        /\ report.mismatch = Len(year_mismatches)
        /\ report.missing = MissingCount
        /\ report.perfect + report.mismatch + report.missing = Len(api_orgs)

C4_Witness ==
    /\ pc = "final_comparison_reported"
    /\ Len(api_orgs) = 2
    /\ perfect_matches = <<N_Kodi>>
    /\ Len(missing_from_ours) = 1
    /\ report = counts(1, 0, 1)

(***************************************************************************)
(* The scripts in sequence on the Kodi records: merge_by_urls.main, then   *)
(* align_with_api.main on its output, then final_comparison.main on the    *)
(* aligned output.                                                         *)
(***************************************************************************)
KodiWebsites == {U_KodiHttp, U_KodiWww}

E_XBMCFoundation(website) ==
    [name |-> N_XBMCFoundation, website |-> website, years_appeared |-> <<2014, 2015>>]

E_KodiFoundation(website) ==
    [name |-> N_KodiFoundation, website |-> website,
     years_appeared |-> <<2016, 2017, 2018, 2019, 2020>>]

E_KodiFoundationSocials(website) ==
    [name |-> N_KodiFoundation, website |-> website,
     socials |-> [github |-> U_GithubXbmc, twitter |-> None, other |-> <<U_KodiWww>>],
     years_appeared |-> <<2016, 2017, 2018, 2019, 2020>>]

\* the Debian record, which shares no key with the Kodi records
E_Debian == RawPool[4]

\* the two Kodi records, alone or with the Debian record, in every order
E2ERecordSets ==
    {{E_XBMCFoundation(wx), kf} \cup extra :
        wx \in KodiWebsites,
        kf \in {E_KodiFoundation(w) : w \in KodiWebsites}
                 \cup {E_KodiFoundationSocials(w) : w \in KodiWebsites},
        extra \in {{}, {E_Debian}}}

E2ELists ==
    UNION {{[k \in 1..Cardinality(S) |-> with_id(q[k], k)] : q \in Perms(S)} :
           S \in E2ERecordSets}

E2EApiLists ==
    {<<A_Kodi>>, <<A_Kodi, [name |-> N_AboutCode]>>, <<[name |-> N_AboutCode], A_Kodi>>}

InitE2E ==
    /\ pc = "extract"
    /\ i = 1
    /\ orgs \in E2ELists
    /\ api_orgs \in E2EApiLists
    /\ url_to_orgs = <<>>
    /\ parent = <<>>
    /\ groups = <<>>
    /\ merged_orgs = <<>>
    /\ MergeIdle /\ AlignIdle /\ CompareIdle /\ NamesIdle

\* align_with_api.py lines 92-95: the merged records are loaded
LoadMerged ==
    /\ pc = "done"
    /\ our_orgs' = merged_orgs
    /\ pc' = "match"
    /\ i' = 1
    /\ UNCHANGED <<gvars, mvars, api_orgs, api_groups, unmatched_orgs, aligned_orgs,
                   cvars, nvars>>

\* final_comparison.py lines 14-15: the aligned records are loaded
LoadAligned ==
    /\ pc = "aligned"
    /\ final_orgs' = aligned_orgs
    /\ pc' = "final_comparison"
    /\ i' = 1
    /\ UNCHANGED <<gvars, mvars, avars, perfect_matches, year_mismatches,
                   missing_from_ours, only_in_ours, report, nvars>>

NextE2E ==
    \/ NextGrouping
    \/ LoadMerged
    \/ NextAlign
    \/ LoadAligned
    \/ FinalComparisonClassify
    \/ FinalComparisonSummary

SpecE2E == InitE2E /\ [][NextE2E]_vars

Years2014To2020 == <<2014, 2015, 2016, 2017, 2018, 2019, 2020>>

\* the positions of the two Kodi records in the input
IndexOf(name) == CHOOSE k \in 1..Len(orgs) : orgs[k].name = name

GroupsRead == pc \notin {"extract", "union"}
MergeDone == pc \notin {"extract", "union", "merge"}
AlignDone == pc \in {"aligned", "final_comparison", "final_comparison_reported"}

\* the merged records with the years 2014..2020
KodiMerged == {k \in 1..Len(merged_orgs) : merged_orgs[k].years_appeared = Years2014To2020}

\* the aligned records named Kodi
KodiAligned == {k \in 1..Len(aligned_orgs) : aligned_orgs[k].name = N_Kodi}

Aligned == pc = "aligned"

\* record k matches by none of the three steps of lines 184-205
MatchesNoApiName(k) ==
    /\ ~(IsAliasKey(our_orgs[k].name) /\ IsApiName(manual_mappings[our_orgs[k].name]))
    /\ ~IsApiName(our_orgs[k].name)
    /\ FuzzyTarget(our_orgs[k].name) = None

(* C12: a merged record that matches no authoritative name by the alias,   *)
(* exact or fuzzy step is in the aligned output exactly once, equal to the *)
(* input record in every field, its name included.                         *)
C12_UnmatchedKeptOnceUnchanged ==
    Aligned =>
        \A k \in 1..Len(our_orgs) :
            MatchesNoApiName(k) => Count(aligned_orgs, our_orgs[k]) = 1

\* a record is kept unmatched next to a record that was aligned
C12_Witness ==
    /\ Aligned
    /\ \E k, m \in 1..Len(our_orgs) :
          /\ MatchesNoApiName(k) /\ Count(aligned_orgs, our_orgs[k]) = 1
          /\ ~MatchesNoApiName(m)

\* no record resolves to the name of authoritative record k
NoRecordAssigned(k) ==
    \A m \in 1..Len(our_orgs) : resolve(our_orgs[m].name, api_orgs) # api_orgs[k].name

\* the build loop is past authoritative record k
Built(k) == k \in 1..Len(api_orgs) /\ (pc = "aligned" \/ (pc = "build" /\ k < i))

Carrying(name) == {m \in 1..Len(aligned_orgs) : aligned_orgs[m].name = name}

\* the step of the build loop at an authoritative record nothing was assigned to
\* adds nothing to the output and goes on to the next record
SkipsUnassigned ==
    (pc = "build" /\ i <= Len(api_orgs) /\ NoRecordAssigned(i)) =>
        (aligned_orgs' = aligned_orgs /\ pc' = "build" /\ i' = i + 1)

SocialKeys == {"twitter", "github", "email", "blog", "mailing_list", "other"}

\* the value of socials[key], None when the record has no socials or no such key
social_of(org, key) ==
    IF key \in DOMAIN socials_of(org) THEN socials_of(org)[key] ELSE None

\* two records agree on every field but the name; an absent social key and a
\* None or empty one count as the same
SameButName(a, b) ==
    /\ Get(a, "_id") = Get(b, "_id")
    /\ Get(a, "years_appeared") = Get(b, "years_appeared")
    /\ Get(a, "website") = Get(b, "website")
    /\ \A key \in SocialKeys :
          IF Truthy(social_of(a, key)) /\ Truthy(social_of(b, key))
          THEN social_of(a, key) = social_of(b, key)
          ELSE Truthy(social_of(a, key)) = Truthy(social_of(b, key))

\* the authoritative names with two or more records assigned, the build loop past them
MultiplyAssigned ==
    {k \in 1..Len(api_orgs) :
        /\ Built(k)
        /\ api_orgs[k].name \in DOMAIN api_groups
        /\ Len(api_groups[api_orgs[k].name]) >= 2}

(* C14: when two or more merged records are assigned to one authoritative  *)
(* name, the aligned record is the merge of those records by the field     *)
(* rules of merge_organizations (socials first non-null per key, website   *)
(* first https else first non-null, ...), with the name replaced by the    *)
(* authoritative name.                                                     *)
C14_AlignedIsRemergeRenamed ==
    \A k \in MultiplyAssigned :
        \A m \in Carrying(api_orgs[k].name) :
            /\ aligned_orgs[m].name = api_orgs[k].name
            /\ SameButName(aligned_orgs[m],
                           merge_organizations_api(api_groups[api_orgs[k].name],
                                                   api_orgs[k].name))

(***************************************************************************)
(* The match percentage of a year mismatch.                                *)
(***************************************************************************)
\* p is the floor of 100 * |I| / |U|, U not empty
IsFloorPercent(p, I, U) ==
    /\ U # {}
    /\ p * Cardinality(U) <= 100 * Cardinality(I)
    /\ 100 * Cardinality(I) < (p + 1) * Cardinality(U)

\* the authoritative years of a name, as the classification loop reads them
ApiYearsOf(name) ==
    api_year_set(api_orgs[CHOOSE k \in 1..Len(api_orgs) : api_orgs[k].name = name])

\* mismatch k has a percentage: recorded in the entry, or printed by
\* compare_url_merged_with_api once it has reported
HasMatchPercent(k) ==
    \/ InFinalComparison
    \/ InFinalComparisonReport
    \/ pc = "compare_url_merged_with_api_reported" /\ k \in DOMAIN report.match_pct

MatchPercentOf(k) ==
    IF InFinalComparison THEN year_mismatches[k].match_pct
    ELSE IF InFinalComparisonReport THEN year_mismatches[k].match_percent
    ELSE report.match_pct[k]

(* C15: for every year-mismatch entry the match percentage is the floor of *)
(* 100 times the size of the intersection of the authoritative and the     *)
(* candidate year sets, divided by the size of their union, the two year   *)
(* lists taken as sets; as recorded in the entry by final_comparison and   *)
(* final_comparison_report and as printed by compare_url_merged_with_api.  *)
C15_MatchPercentIsFloorOfJaccard ==
    Comparing =>
        \A k \in DOMAIN year_mismatches :
            LET A == ApiYearsOf(year_mismatches[k].name)
                C == CandidateYears(year_mismatches[k].name)
            IN /\ Range(year_mismatches[k].api_years) = A
               /\ Range(year_mismatches[k].our_years) = C
               /\ HasMatchPercent(k) =>
                     IsFloorPercent(MatchPercentOf(k), A \cap C, A \cup C)

\* {2016, 2019} against the list [2016, 2017, 2016]: 1 of 3 years, 33 percent
C15_Witness ==
    /\ pc = "final_comparison_report_reported"
    /\ \E k \in DOMAIN year_mismatches :
          /\ year_mismatches[k].name = N_CephFoundation
          /\ year_mismatches[k].our_years = <<2016, 2016, 2017>>
          /\ year_mismatches[k].match_percent = 33

(***************************************************************************)
(* merge_by_urls.main on a collection with a record that has no name.      *)
(***************************************************************************)
Nameless == {k \in 1..Len(orgs) : ~has_name(orgs[k])}

\* record k shares no key with another record
SharesNoKey(k) == \A m \in 1..Len(orgs) : m # k => KeysOf(k) \cap KeysOf(m) = {}

(* C16: URL grouping and merging over a collection that contains a record  *)
(* with no name (the field absent or null) completes without raising, and  *)
(* the record is output, as its own singleton group when it shares no key  *)
(* with another record.                                                    *)
C16_NamelessRecordDoesNotAbort ==
    /\ (Nameless # {}) => pc # "raised"
    /\ pc = "done" =>
          \A k \in Nameless :
              /\ \E g \in 1..Len(groups) : k \in Range(groups[g])
              /\ SharesNoKey(k) =>
                    /\ \E g \in 1..Len(groups) : groups[g] = <<k>>
                    /\ orgs[k] \in Range(merged_orgs)

(***************************************************************************)
(* merge_organizations on a group in which no member has a usable value    *)
(* for a field.                                                            *)
(***************************************************************************)
MergedGroup == Len(group_orgs) >= 2

\* no member of the group has the field with a value that is neither null nor empty
NoMemberHas(field) ==
    \A k \in 1..Len(group_orgs) :
        field \in DOMAIN group_orgs[k] => ~Truthy(group_orgs[k][field])

NoMemberHasYears ==
    \A k \in 1..Len(group_orgs) :
        "years_appeared" \in DOMAIN group_orgs[k] => group_orgs[k].years_appeared = <<>>

NoMemberHasSocial(key) ==
    \A k \in 1..Len(group_orgs) : ~Truthy(social_of(group_orgs[k], key))

NoMemberHasStamp(field) ==
    \A k \in 1..Len(group_orgs) :
        field \in DOMAIN group_orgs[k] => group_orgs[k][field].kind = "null"

(* C17: for a group of two or more records in which no member has a usable *)
(* value for a merged field, merge_organizations returns without raising   *)
(* and the merged record carries the field with a null or empty value; for *)
(* the name, the years, the website, every social key, created_at and      *)
(* updated_at.                                                             *)
C17_AbsentFieldMergesToNullOrEmpty ==
    /\ (MergedGroup /\ \A k \in 1..Len(group_orgs) : ~has_name(group_orgs[k])) =>
          pc # "raised"
    /\ (MergedGroup /\ pc = "merged_by_urls") =>
          /\ NoMemberHasYears =>
                "years_appeared" \in DOMAIN merged /\ merged.years_appeared = <<>>
          /\ NoMemberHas("website") =>
                "website" \in DOMAIN merged /\ ~Truthy(merged.website)
          /\ \A key \in SocialKeys :
                NoMemberHasSocial(key) =>
                    "socials" \in DOMAIN merged /\ key \in DOMAIN merged.socials
                    /\ ~Truthy(merged.socials[key])
          /\ NoMemberHasStamp("created_at") =>
                "created_at" \in DOMAIN merged /\ merged.created_at.kind = "null"
          /\ NoMemberHasStamp("updated_at") =>
                "updated_at" \in DOMAIN merged /\ merged.updated_at.kind = "null"

(***************************************************************************)
(* The scripts and their inputs: a run of merge_by_urls, align_with_api    *)
(* and final_comparison in sequence, or merge_organizations of either      *)
(* script applied to one group.                                            *)
(***************************************************************************)
InitPipeline == InitE2E \/ InitMerge

NextPipeline == NextE2E \/ NextMerge

SpecPipeline == InitPipeline /\ [][NextPipeline]_vars

\* a step leaves the raw records, the group handed to merge_organizations and
\* the authoritative records as they are; the merged and the aligned records,
\* once loaded by the next script, likewise
InputsKept ==
    /\ orgs' = orgs
    /\ group_orgs' = group_orgs
    /\ api_orgs' = api_orgs
    /\ pc # "done" => our_orgs' = our_orgs
    /\ pc # "aligned" => final_orgs' = final_orgs

(* C18: grouping, merging, alignment and comparison leave their inputs     *)
(* unchanged: no step of a run changes a field of a raw record or of an    *)
(* authoritative record (or of the records a script loaded from the one    *)
(* before), also when a singleton group passes a record through or an      *)
(* aligned record is renamed to the authoritative name.                    *)
C18_InputsUnchanged == [][InputsKept]_vars

\* the end of a run in which the Debian record passed through as a singleton
\* and the merged Kodi record was renamed: the raw and the merged records still
\* have their names
C18_Witness ==
    /\ pc = "final_comparison_reported"
    /\ \E k \in 1..Len(orgs) : orgs[k] \in Range(merged_orgs) /\ orgs[k].name = N_Debian
    /\ \E k \in 1..Len(aligned_orgs) : aligned_orgs[k].name = N_Kodi
    /\ \A k \in 1..Len(our_orgs) : our_orgs[k].name # N_Kodi
    /\ \A k \in 1..Len(orgs) : orgs[k].name \in {N_XBMCFoundation, N_KodiFoundation, N_Debian}

(***************************************************************************)
(* Order of the unions (Spec)                                              *)
(***************************************************************************)
\* lines 289-294: the union calls in the order the script makes them, each a
\* pair <<first_idx, idx>>
RECURSIVE union_calls(_, _)
union_calls(u, k) ==
    IF k > Len(u) THEN <<>>
    ELSE [j \in 1..(Len(u[k].index) - 1) |-> <<u[k].index[1], u[k].index[j + 1]>>]
             \o union_calls(u, k + 1)

\* the parent array after the calls, made in order
RECURSIVE apply_calls(_, _)
apply_calls(p, calls) ==
    IF calls = <<>> THEN p
    ELSE apply_calls(union(p, Head(calls)[1], Head(calls)[2]), Tail(calls))

\* the groups of a parent array as a set of sets of indices
Partition(p) ==
    {{b \in DOMAIN p : RootOf(p, b) = RootOf(p, a)} : a \in DOMAIN p}

\* the orders of the elements of a sequence
RECURSIVE Orders(_)
Orders(seq) ==
    IF seq = <<>> THEN {<<>>}
    ELSE UNION {{<<seq[k]>> \o rest :
                    rest \in Orders([j \in 1..(Len(seq) - 1) |->
                                        IF j < k THEN seq[j] ELSE seq[j + 1]])} :
                k \in 1..Len(seq)}

\* the records reachable from those of S over shared keys
RECURSIVE SharingWith(_, _)
SharingWith(S, K) ==
    LET T == S \cup {b \in DOMAIN K : \E a \in S : K[a] \cap K[b] # {}}
    IN IF T = S THEN S ELSE SharingWith(T, K)

\* the groups the script read off the roots, as a set of sets of indices
GroupSet == {Range(groups[g]) : g \in 1..Len(groups)}

\* the set of groups is that of the records linked over the keys they share,
\* and the union calls made in any other order from the initial parent array
\* give the same set of groups
OrderIndependent ==
    LET K == [k \in 1..Len(orgs) |-> extract_key_urls(orgs[k])]
        P0 == [k \in 1..Len(orgs) |-> k]
    IN /\ GroupSet = Partition(parent)
       /\ GroupSet = {SharingWith({a}, K) : a \in 1..Len(orgs)}
       /\ \A calls \in Orders(union_calls(url_to_orgs, 1)) :
             Partition(apply_calls(P0, calls)) = GroupSet

\* the groups have just been read off the roots (lines 297-300); no later
\* step assigns parent, groups or url_to_orgs
GroupsJustRead == pc = "merge" /\ i = 1

(* C19: the final partition does not depend on the order of unions: the    *)
(* set of groups read off the roots is that of the records linked over the *)
(* keys they share, whatever the order in which the keys came, and making  *)
(* the same union calls in any other order gives the same set of groups;   *)
(* the groups are those of the parent array in every later state.          *)
C19_PartitionIndependentOfUnionOrder ==
    /\ Grouped => GroupSet = Partition(parent)
    /\ GroupsJustRead => OrderIndependent

\* a finished run with three union calls, one of them between records already
\* in one group, in which another order of the calls leaves another root
C19_Witness ==
    /\ pc = "done"
    /\ Len(union_calls(url_to_orgs, 1)) >= 3
    /\ \E g \in 1..Len(groups) : Len(groups[g]) = 3
    /\ \E calls \in Orders(union_calls(url_to_orgs, 1)) :
          LET p == apply_calls([k \in 1..Len(orgs) |-> k], calls)
          IN \E a \in 1..Len(orgs) : RootOf(p, a) # RootOf(parent, a)

(***************************************************************************)
(* merge_orgs_by_domain_and_name.py: grouping the documents without a      *)
(* website by the similarity of their names.  token_set_ratio is           *)
(* rapidfuzz.fuzz.token_set_ratio, imported at line 27: the names are      *)
(* split on whitespace into sets of tokens; the score is 0 when a name has *)
(* no token, 100 when one set of tokens contains the other, and otherwise  *)
(* the largest of three normalised Indel similarities.  A score is never   *)
(* computed as a number here: it is compared with the threshold exactly.   *)
(***************************************************************************)
\* one row of the longest-common-subsequence table: prev is the row of the
\* prefix before the character c, both indexed from 1 for the column 0
RECURSIVE lcs_row(_, _, _, _, _)
lcs_row(prev, c, b, j, row) ==
    IF j > Len(b) THEN row
    ELSE lcs_row(prev, c, b, j + 1,
                 Append(row, IF c = b[j] THEN prev[j] + 1
                             ELSE IF prev[j + 1] >= row[j] THEN prev[j + 1] ELSE row[j]))

RECURSIVE lcs_rows(_, _, _, _)
lcs_rows(a, b, k, prev) ==
    IF k > Len(a) THEN prev[Len(b) + 1]
    ELSE lcs_rows(a, b, k + 1, lcs_row(prev, a[k], b, 1, <<0>>))

lcs_length(a, b) == lcs_rows(a, b, 1, [j \in 1..(Len(b) + 1) |-> 0])

\* the number of insertions and deletions that turn a into b
indel_distance(a, b) == Len(a) + Len(b) - 2 * lcs_length(a, b)

\* 100 - 100 * dist / lensum >= t (100 when lensum is 0)
norm_distance_reaches(dist, lensum, t) ==
    IF lensum = 0 THEN 100 >= t ELSE 100 * (lensum - dist) >= t * lensum

\* " ".join(sorted(tokens))
RECURSIVE join_words(_)
join_words(words) ==
    IF words = <<>> THEN <<>>
    ELSE IF Len(words) = 1 THEN words[1]
    ELSE words[1] \o <<" ">> \o join_words(Tail(words))

sorted_joined(tokens) ==
    join_words(CHOOSE q \in Perms(tokens) :
                  \A x, y \in 1..Cardinality(tokens) : x < y => StrLess(q[x], q[y]))

\* token_set_ratio(s1, s2) >= t
token_set_ratio_reaches(s1, s2, t) ==
    LET tokens_a == Range(split(s1))
        tokens_b == Range(split(s2))
        intersect == tokens_a \cap tokens_b
        diff_ab == sorted_joined(tokens_a \ tokens_b)
        diff_ba == sorted_joined(tokens_b \ tokens_a)
        sect_len == Len(sorted_joined(intersect))
        space == IF sect_len = 0 THEN 0 ELSE 1
        sect_ab_len == sect_len + space + Len(diff_ab)
        sect_ba_len == sect_len + space + Len(diff_ba)
    IN IF tokens_a = {} \/ tokens_b = {} THEN 0 >= t
       ELSE IF intersect # {} /\ (diff_ab = <<>> \/ diff_ba = <<>>) THEN 100 >= t
       ELSE \/ norm_distance_reaches(indel_distance(diff_ab, diff_ba),
                                     sect_ab_len + sect_ba_len, t)
            \/ /\ sect_len # 0
               /\ \/ norm_distance_reaches(space + Len(diff_ab), sect_len + sect_ab_len, t)
                  \/ norm_distance_reaches(space + Len(diff_ba), sect_len + sect_ba_len, t)

\* lines 149, 153: (d.get("name") or "").lower()
name_lowered(d) == IF has_name(d) THEN lower(d.name) ELSE <<>>

\* lines 154-155: score >= thresh
score_reaches(d, e, t) == token_set_ratio_reaches(name_lowered(d), name_lowered(e), t)

\* lines 150-157: the documents after the i-th that are not in a group yet and
\* whose name scores at least thresh against the i-th
RECURSIVE fuzzy_members(_, _, _, _, _)
fuzzy_members(ds, k, j, t, taken) ==
    IF j > Len(ds) THEN <<>>
    ELSE IF ds[j]._id \notin taken /\ score_reaches(ds[k], ds[j], t)
         THEN <<j>> \o fuzzy_members(ds, k, j + 1, t, taken \cup {ds[j]._id})
         ELSE fuzzy_members(ds, k, j + 1, t, taken)

N_KodiXBMC == <<"K","o","d","i"," ","X","B","M","C">>
N_XBMC == <<"X","B","M","C">>
N_KodiMedia == <<"K","o","d","i"," ","M","e","d","i","a">>

\* line 172: the documents whose website is null or empty
NoDomainPool == <<
    [name |-> N_Kodi, website |-> None],
    [name |-> N_KodiXBMC, website |-> None],
    [name |-> N_XBMC, website |-> <<>>],
    [name |-> N_KodiMedia, website |-> None],
    [name |-> None, website |-> None] >>

MaxDocs == 3

\* --fuzzy-thresh: the default and two others
FuzzyThreshes == {0, 60, 90}

InitFuzzy ==
    /\ pc = "fuzzy_group_remaining"
    /\ i = 1
    /\ docs \in RecordLists(NoDomainPool, MaxDocs)
    /\ thresh \in FuzzyThreshes
    /\ used = {}
    /\ name_groups = <<>>
    /\ MigrateIdle
    /\ name1 = None /\ name2 = None /\ compat = None
    /\ query_name = None /\ threshold = None /\ api_match = None
    /\ GroupingIdle /\ MergeIdle /\ api_orgs = <<>> /\ AlignIdle /\ CompareIdle

\* lines 145-146: a document already in a group starts none
FuzzySkipUsed ==
    /\ pc = "fuzzy_group_remaining" /\ i <= Len(docs)
    /\ docs[i]._id \in used
    /\ i' = i + 1
    /\ UNCHANGED <<pc, gvars, mvars, avars, cvars, name1, name2, compat, query_name,
                   threshold, api_match, docs, thresh, used, name_groups, dvars, zvars>>

\* lines 147-158: the group the i-th document starts
FuzzyGroupFrom ==
    /\ pc = "fuzzy_group_remaining" /\ i <= Len(docs)
    /\ docs[i]._id \notin used
    /\ LET group == <<i>> \o fuzzy_members(docs, i, i + 1, thresh, used \cup {docs[i]._id})
       IN /\ name_groups' = Append(name_groups, group)
          /\ used' = used \cup {docs[k]._id : k \in Range(group)}
    /\ i' = i + 1
    /\ UNCHANGED <<pc, gvars, mvars, avars, cvars, name1, name2, compat, query_name,
                   threshold, api_match, docs, thresh, dvars, zvars>>

\* line 159
FuzzyReturn ==
    /\ pc = "fuzzy_group_remaining" /\ i > Len(docs)
    /\ pc' = "fuzzy_grouped"
    /\ UNCHANGED <<i, gvars, mvars, avars, cvars, nvars>>

NextFuzzy == FuzzySkipUsed \/ FuzzyGroupFrom \/ FuzzyReturn

SpecFuzzy == InitFuzzy /\ [][NextFuzzy]_vars

InNameGroup(g, k) == k \in Range(name_groups[g])

(* C20: in the name-similarity fallback every pair whose name score        *)
(* reaches the threshold is put in one group, so the groups are            *)
(* transitive (when score(A,B) and score(B,C) reach the threshold, A, B    *)
(* and C are in one group, also when score(A,C) does not), and every       *)
(* document is in exactly one group.                                       *)
C20_FuzzyGroupsTransitive ==
    pc = "fuzzy_grouped" =>
        /\ \A k \in 1..Len(docs) :
              Cardinality({g \in 1..Len(name_groups) : InNameGroup(g, k)}) = 1
        /\ \A a, b \in 1..Len(docs) :
              a # b /\ score_reaches(docs[a], docs[b], thresh)
                  => \E g \in 1..Len(name_groups) : InNameGroup(g, a) /\ InNameGroup(g, b)
        /\ \A a, b, c \in 1..Len(docs) :
              /\ Cardinality({a, b, c}) = 3
              /\ score_reaches(docs[a], docs[b], thresh)
              /\ score_reaches(docs[b], docs[c], thresh)
              => \E g \in 1..Len(name_groups) :
                    InNameGroup(g, a) /\ InNameGroup(g, b) /\ InNameGroup(g, c)

(***************************************************************************)
(* merge_orgs_by_domain_and_name.py: merging the documents of the          *)
(* organizations collection by domain and by name.  A timestamp is the     *)
(* number of an instant; datetime.utcnow() is Now, later than every stored *)
(* one.  A canonical id is kept as its parts: the sha1 digest of line 55   *)
(* is taken to differ exactly when its input differs.                      *)
(***************************************************************************)
Now == 100

\* lines 40-50
domain_from_url(url) ==
    IF ~Truthy(url) THEN None
    ELSE LET host == lower(urlparse(url).netloc)
         IN IF startswith(host, <<"w","w","w",".">>) THEN SubSeq(host, 5, Len(host)) ELSE host

\* slugify(name): lower case, every run of other characters a single dash,
\* no dash at either end
SlugChars == Range(LowerChars) \cup Range(Digits)

RECURSIVE slug_chars(_, _)
slug_chars(t, pending) ==
    IF t = <<>> THEN <<>>
    ELSE IF Head(t) \in SlugChars
         THEN (IF pending THEN <<"-">> ELSE <<>>) \o <<Head(t)>> \o slug_chars(Tail(t), FALSE)
         ELSE slug_chars(Tail(t), TRUE)

slugify(name) ==
    LET t == lower(name)
        first == {k \in 1..Len(t) : t[k] \in SlugChars}
    IN IF first = {} THEN <<>>
       ELSE slug_chars(SubSeq(t, Min(first), Len(t)), FALSE)

\* lines 52-56
make_canonical_org_id(name, domain) ==
    [kind |-> "merged", base |-> SubSeq(slugify(name), 1, IF Len(slugify(name)) < 60
                                                          THEN Len(slugify(name)) ELSE 60),
     hashed |-> IF Truthy(domain) THEN domain ELSE name]

\* gsoc_archive_importer.canonical_id(program_slug, slug)
canonical_id(program_slug, slug) ==
    [kind |-> "imported", base |-> program_slug, hashed |-> slug]

\* lines 58-65
RECURSIVE union_into(_, _)
union_into(out, l) ==
    IF l = <<>> THEN out
    ELSE union_into(IF Head(l) \in Range(out) THEN out ELSE Append(out, Head(l)), Tail(l))

RECURSIVE union_lists(_)
union_lists(lists) ==
    IF lists = <<>> THEN <<>>
    ELSE union_into(union_lists(SubSeq(lists, 1, Len(lists) - 1)), lists[Len(lists)])

\* d.get(key) or [] (a stored list is never null: the importer stores [])
list_or_empty(d, key) == IF key \in DOMAIN d THEN d[key] ELSE <<>>

has_created_at(d) == "created_at" \in DOMAIN d

\* line 72: the key docs are sorted by
created_key(d) == IF has_created_at(d) THEN d.created_at ELSE Now

\* lines 72-73: the first document of the stable sort
primary_of(ds) ==
    ds[Min({k \in 1..Len(ds) : \A j \in 1..Len(ds) : created_key(ds[k]) <= created_key(ds[j])})]

\* lines 77-79: the domain of the last document that has one
group_domain(ds) ==
    LET with == {k \in 1..Len(ds) : Truthy(domain_from_url(Get(ds[k], "website")))}
    IN IF with = {} THEN None ELSE domain_from_url(ds[Max(with)].website)

\* line 76: primary.get("name") or docs[0].get("name")
group_name(ds) ==
    IF Truthy(Get(primary_of(ds), "name")) THEN primary_of(ds).name ELSE Get(ds[1], "name")

\* lines 104-110: for each key the first value that is not null or empty
merged_socials(ds) ==
    LET has(k, key) == /\ key \in DOMAIN socials_of(ds[k])
                       /\ Truthy(socials_of(ds[k])[key])
        keys == UNION {{key \in DOMAIN socials_of(ds[k]) : has(k, key)} : k \in 1..Len(ds)}
    IN [key \in keys |-> ds[Min({k \in 1..Len(ds) : has(k, key)})].socials[key]]

first_truthy(ds, key) ==
    LET with == {k \in 1..Len(ds) : Truthy(Get(ds[k], key))}
    IN IF with = {} THEN None ELSE ds[Min(with)][key]

\* lines 80-110: the merged document
merged_doc(ds) ==
    LET primary == primary_of(ds)
        name == group_name(ds)
        domain == group_domain(ds)
        years == UNION {Range(list_or_empty(ds[k], "years_appeared")) : k \in 1..Len(ds)}
        created == {ds[k].created_at : k \in {j \in 1..Len(ds) : has_created_at(ds[j])}}
    IN [canonical_id |-> make_canonical_org_id(name, domain),
        slug |-> make_canonical_org_id(name, domain).base,
        name |-> name,
        website |-> IF Truthy(domain) THEN domain ELSE Get(primary, "website"),
        logoUrl |-> IF Truthy(Get(primary, "logoUrl")) THEN primary.logoUrl
                    ELSE first_truthy(ds, "logoUrl"),
        logo_local_filename |-> None,
        short_desc |-> IF Truthy(Get(primary, "short_desc")) THEN primary.short_desc ELSE None,
        description_html |-> IF Truthy(Get(primary, "description_html"))
                             THEN primary.description_html ELSE None,
        tech_stack |-> union_lists([k \in 1..Len(ds) |-> list_or_empty(ds[k], "tech_stack")]),
        topics |-> union_lists([k \in 1..Len(ds) |-> list_or_empty(ds[k], "topics")]),
        categories |-> union_lists([k \in 1..Len(ds) |-> list_or_empty(ds[k], "categories")]),
        socials |-> merged_socials(ds),
        years_appeared |-> SortedSeq(years),
        years_count |-> Cardinality(years),
        appearances |-> union_lists([k \in 1..Len(ds) |-> list_or_empty(ds[k], "appearances")]),
        created_at |-> IF created = {} THEN Now ELSE Min(created),
        updated_at |-> Now]

\* update_one({"canonical_id": ...}, {"$set": fields}, upsert=True)
upsert_set(coll, fields) ==
    LET at == {k \in 1..Len(coll) : coll[k].canonical_id = fields.canonical_id}
        fresh == 1 + Max({0} \cup {coll[k]._id : k \in 1..Len(coll)})
    IN IF at = {} THEN Append(coll, fields @@ [_id |-> fresh])
       ELSE [coll EXCEPT ![Min(at)] = fields @@ @]

\* line 118: the canonical ids of the documents of the group
old_cans(ds) == {ds[k].canonical_id : k \in {j \in 1..Len(ds) : "canonical_id" \in DOMAIN ds[j]}}

\* lines 116, 122-124: the collection after merge_group(docs)
merge_group_orgs(coll, ds, del) ==
    LET written == upsert_set(coll, merged_doc(ds))
    IN IF del
       THEN SelectSeq(written, LAMBDA d : d.canonical_id \notin old_cans(ds))
       ELSE written

\* lines 119-121: the projects of the old documents point to the merged one
merge_group_projects(projs, ds) ==
    [k \in 1..Len(projs) |->
        IF projs[k] \in old_cans(ds) THEN merged_doc(ds).canonical_id ELSE projs[k]]

\* the projection of lines 129 and 172
Projection == {"_id", "canonical_id", "name", "website", "slug", "years_appeared",
               "created_at", "logoUrl", "short_desc", "socials", "topics", "tech_stack"}

project(d) == [f \in DOMAIN d \cap Projection |-> d[f]]

\* lines 130-137: the fetched documents by domain
RECURSIVE group_by_domain(_, _, _)
group_by_domain(coll, k, acc) ==
    IF k > Len(coll) THEN acc
    ELSE LET d == project(coll[k])
             domain == domain_from_url(Get(d, "website"))
             at == {g \in 1..Len(acc) : acc[g].domain = domain}
         IN group_by_domain(coll, k + 1,
              IF ~Truthy(domain) THEN acc
              ELSE IF at = {} THEN Append(acc, [domain |-> domain, docs |-> <<d>>])
              ELSE [acc EXCEPT ![Min(at)].docs = Append(@, d)])

\* line 172: the documents whose website is null or the empty string
no_website(coll) ==
    LET sel == SelectSeq(coll, LAMBDA d : Get(d, "website") \in {None, <<>>})
    IN [k \in 1..Len(sel) |-> project(sel[k])]

\* documents as gsoc_archive_importer.upsert_org_and_projects stores them,
\* one per organization and year
StoredPool == <<
    [canonical_id |-> canonical_id(<<"2","0","1","6">>, <<"k","o","d","i">>),
     name |-> N_KodiFoundation, website |-> U_KodiWww,
     tech_stack |-> <<"c++">>, topics |-> <<"media">>, categories |-> <<"Media">>,
     socials |-> [github |-> U_GithubXbmc, twitter |-> None],
     years_appeared |-> <<2016>>, years_count |-> 1,
     appearances |-> <<[year |-> 2016, chosenCount |-> 3]>>, created_at |-> 2],
    [canonical_id |-> canonical_id(<<"2","0","1","4">>, <<"x","b","m","c">>),
     name |-> N_XBMCFoundation, website |-> U_KodiHttp,
     tech_stack |-> <<"c++", "python">>, topics |-> <<"video">>, categories |-> <<"Media">>,
     socials |-> [github |-> None, twitter |-> U_TwitterKodi],
     years_appeared |-> <<2014>>, years_count |-> 1,
     appearances |-> <<[year |-> 2014, chosenCount |-> 5]>>, created_at |-> 1],
    [canonical_id |-> canonical_id(<<"2","0","1","8">>, <<"k","o","d","i">>),
     name |-> N_Kodi, website |-> None,
     tech_stack |-> <<"python">>, topics |-> <<"media">>, categories |-> <<"Media">>,
     socials |-> [github |-> None, twitter |-> None],
     years_appeared |-> <<2018>>, years_count |-> 1,
     appearances |-> <<[year |-> 2018, chosenCount |-> 2]>>, created_at |-> 3],
    [canonical_id |-> canonical_id(<<"2","0","1","9">>, <<"k","o","d","i","-","x","b","m","c">>),
     name |-> N_KodiXBMC, website |-> <<>>,
     tech_stack |-> <<>>, topics |-> <<"tv">>, categories |-> <<"End user applications">>,
     socials |-> [github |-> None, twitter |-> None],
     years_appeared |-> <<2019>>, years_count |-> 1,
     appearances |-> <<[year |-> 2019, chosenCount |-> 4]>>, created_at |-> 4] >>

MaxStored == 3

InitMigrate ==
    /\ pc = "find_domain_groups"
    /\ i = 1
    /\ \E stored \in DistinctLists(StoredPool, MaxStored) :
          /\ collection = [k \in 1..Len(stored) |-> with_id(stored[k], k)]
          /\ projects = [k \in 1..Len(stored) |-> stored[k].canonical_id]
    /\ by_domain = <<>>
    /\ dry_run \in BOOLEAN
    /\ delete_old \in BOOLEAN
    /\ UrlsIdle
    /\ thresh \in FuzzyThreshes
    /\ docs = <<>> /\ used = {} /\ name_groups = <<>>
    /\ name1 = None /\ name2 = None /\ compat = None
    /\ query_name = None /\ threshold = None /\ api_match = None
    /\ GroupingIdle /\ MergeIdle /\ api_orgs = <<>> /\ AlignIdle /\ CompareIdle

\* line 162: find_domain_groups()
FindDomainGroups ==
    /\ pc = "find_domain_groups"
    /\ by_domain' = group_by_domain(collection, 1, <<>>)
    /\ pc' = "merge_domain_groups"
    /\ i' = 1
    /\ UNCHANGED <<gvars, mvars, avars, cvars, name1, name2, compat, query_name, threshold,
                   api_match, docs, thresh, used, name_groups, collection, projects,
                   dry_run, delete_old, zvars>>

\* lines 67-125, called with a group of more than one document: nothing is
\* written on a dry run
MergeGroupWrites(ds) ==
    IF Len(ds) > 1 /\ ~dry_run
    THEN /\ collection' = merge_group_orgs(collection, ds, delete_old)
         /\ projects' = merge_group_projects(projects, ds)
    ELSE UNCHANGED <<collection, projects>>

\* lines 166-168, one domain
MergeDomainGroup ==
    /\ pc = "merge_domain_groups" /\ i <= Len(by_domain)
    /\ MergeGroupWrites(by_domain[i].docs)
    /\ i' = i + 1
    /\ UNCHANGED <<pc, gvars, mvars, avars, cvars, name1, name2, compat, query_name,
                   threshold, api_match, docs, thresh, used, name_groups, by_domain,
                   dry_run, delete_old, zvars>>

\* line 172: the documents without a website, fetched after the domain merges
FindNoWebsite ==
    /\ pc = "merge_domain_groups" /\ i > Len(by_domain)
    /\ docs' = no_website(collection)
    /\ pc' = "fuzzy_group_remaining"
    /\ i' = 1
    /\ UNCHANGED <<gvars, mvars, avars, cvars, name1, name2, compat, query_name, threshold,
                   api_match, thresh, used, name_groups, dvars, zvars>>

\* line 174
StartNameGroups ==
    /\ pc = "fuzzy_grouped"
    /\ pc' = "merge_name_groups"
    /\ i' = 1
    /\ UNCHANGED <<gvars, mvars, avars, cvars, nvars>>

name_group_docs(g) == [k \in 1..Len(name_groups[g]) |-> docs[name_groups[g][k]]]

\* lines 174-176, one group
MergeNameGroup ==
    /\ pc = "merge_name_groups" /\ i <= Len(name_groups)
    /\ MergeGroupWrites(name_group_docs(i))
    /\ i' = i + 1
    /\ UNCHANGED <<pc, gvars, mvars, avars, cvars, name1, name2, compat, query_name,
                   threshold, api_match, docs, thresh, used, name_groups, by_domain,
                   dry_run, delete_old, zvars>>

MigrateDone ==
    /\ pc = "merge_name_groups" /\ i > Len(name_groups)
    /\ pc' = "migrated"
    /\ UNCHANGED <<i, gvars, mvars, avars, cvars, nvars>>

NextMigrate ==
    \/ FindDomainGroups \/ MergeDomainGroup \/ FindNoWebsite
    \/ FuzzySkipUsed \/ FuzzyGroupFrom \/ FuzzyReturn
    \/ StartNameGroups \/ MergeNameGroup \/ MigrateDone

SpecMigrate == InitMigrate /\ [][NextMigrate]_vars

\* the group merge_group is about to be called with, when it writes
MergingGroup ==
    IF pc = "merge_domain_groups" /\ i <= Len(by_domain) THEN by_domain[i].docs
    ELSE IF pc = "merge_name_groups" /\ i <= Len(name_groups) THEN name_group_docs(i)
    ELSE <<>>

\* the stored documents of the fetched documents ds
StoredMembers(ds) ==
    {k \in 1..Len(collection) : \E j \in 1..Len(ds) : ds[j]._id = collection[k]._id}

\* the document written for the group ds holds every item the stored members
\* have under the key
KeepsItems(ds, key) ==
    \A w \in 1..Len(collection') :
        collection'[w].canonical_id = merged_doc(ds).canonical_id
            => \A k \in StoredMembers(ds) :
                  Range(list_or_empty(collection[k], key)) \subseteq Range(collection'[w][key])

(* C21: the migration keeps provenance: the canonical document merge_group *)
(* writes for a group has every appearance stored on a member document,    *)
(* and every item of the members' stored categories, topics and            *)
(* tech_stack.                                                             *)
C21_MigrationKeepsProvenance ==
    [][(Len(MergingGroup) > 1 /\ ~dry_run)
          => /\ \E w \in 1..Len(collection') :
                   collection'[w].canonical_id = merged_doc(MergingGroup).canonical_id
             /\ KeepsItems(MergingGroup, "appearances")
             /\ KeepsItems(MergingGroup, "categories")
             /\ KeepsItems(MergingGroup, "topics")
             /\ KeepsItems(MergingGroup, "tech_stack")]_vars

(***************************************************************************)
(* normalize_url applied to two spellings of one URL (SpecUrls)            *)
(***************************************************************************)
UpperChar(c) ==
    IF \E k \in DOMAIN LowerChars : LowerChars[k] = c
    THEN UpperChars[CHOOSE k \in DOMAIN LowerChars : LowerChars[k] = c]
    ELSE c

upper(s) == [k \in 1..Len(s) |-> UpperChar(s[k])]

\* URLs without scheme, www., surrounding whitespace or trailing slash
BaseUrls == {
    <<"g","i","t","h","u","b",".","c","o","m","/","f","o","o">>,
    <<"g","i","t","h","u","b",".","c","o","m","/","F","o","o","/","b","a","r">>,
    <<"k","o","d","i",".","t","v">>,
    <<"x",".","c","o","m","/","K","o","d","i","T","V">>,
    <<"D","e","b","i","a","n",".","o","r","g","/","i","n","t","r","o">> }

Schemes == {<<>>, S_Http, S_Https}

\* the spellings of a URL that differ in scheme, leading www., letter case,
\* surrounding whitespace and trailing slash
Spellings(base) ==
    {(IF pad THEN <<" ">> ELSE <<>>)
        \o (IF up THEN upper(scheme \o www \o base \o slash)
                  ELSE scheme \o www \o base \o slash)
        \o (IF pad THEN <<"\t", "\n">> ELSE <<>>) :
        <<scheme, www, slash, up, pad>> \in
            Schemes \X {<<>>, S_Www} \X {<<>>, <<"/">>} \X BOOLEAN \X BOOLEAN}

InitUrls ==
    /\ pc = "normalize_url"
    /\ i = 1
    /\ \E base \in BaseUrls : url1 \in Spellings(base) /\ url2 \in Spellings(base)
    /\ key1 = None /\ key2 = None /\ UnionIdle
    /\ collection = <<>> /\ projects = <<>> /\ by_domain = <<>>
    /\ dry_run = FALSE /\ delete_old = FALSE
    /\ docs = <<>> /\ thresh = None /\ used = {} /\ name_groups = <<>>
    /\ name1 = None /\ name2 = None /\ compat = None
    /\ query_name = None /\ threshold = None /\ api_match = None
    /\ GroupingIdle /\ MergeIdle /\ api_orgs = <<>> /\ AlignIdle /\ CompareIdle

\* normalize_url(url1), normalize_url(url2)
NormalizeUrls ==
    /\ pc = "normalize_url"
    /\ pc' = "normalized"
    /\ key1' = normalize_url(url1)
    /\ key2' = normalize_url(url2)
    /\ UNCHANGED <<i, gvars, mvars, avars, cvars, name1, name2, compat, query_name,
                   threshold, api_match, docs, thresh, used, name_groups, dvars, url1, url2, uvars>>

NextUrls == NormalizeUrls

SpecUrls == InitUrls /\ [][NextUrls]_vars

S_GithubFoo == <<"g","i","t","h","u","b",":","f","o","o">>

(* C22: normalize_url gives the same key for URLs that differ only in      *)
(* scheme (http, https or none), a leading www., letter case, surrounding  *)
(* whitespace or a trailing slash, and the key is not null; in particular  *)
(* https://github.com/foo/ and http://www.github.com/foo both give         *)
(* github:foo.                                                             *)
C22_SpellingsGiveSameKey ==
    pc = "normalized" =>
        /\ key1 = key2
        /\ key1 # None
        /\ url1 = S_Https \o <<"g","i","t","h","u","b",".","c","o","m","/","f","o","o","/">>
              => key1 = S_GithubFoo

\* the two URLs of the example, normalised
C22_Witness ==
    /\ pc = "normalized"
    /\ url1 = S_Https \o <<"g","i","t","h","u","b",".","c","o","m","/","f","o","o","/">>
    /\ url2 = S_Http \o S_Www \o <<"g","i","t","h","u","b",".","c","o","m","/","f","o","o">>
    /\ key1 = S_GithubFoo
    /\ key2 = S_GithubFoo

(***************************************************************************)
(* Merged appearances (SpecMerge)                                          *)
(***************************************************************************)
\* the appearances of the members of the group, member by member
MemberAppearances == Flatten([k \in 1..Len(group_orgs) |-> appearances_of(group_orgs[k])])

\* the years that occur in a member's appearances
AppearanceYears ==
    {MemberAppearances[k].year : k \in {j \in 1..Len(MemberAppearances) :
                                           has_year(MemberAppearances[j])}}

\* the first appearance of the year y in the first member that has one
FirstOfYear(y) ==
    MemberAppearances[Min({k \in 1..Len(MemberAppearances) :
                              has_year(MemberAppearances[k]) /\ MemberAppearances[k].year = y})]

UnionKeyedByYear(apps) ==
    /\ \A k \in 1..Len(apps) : has_year(apps[k])
    /\ {apps[k].year : k \in 1..Len(apps)} = AppearanceYears
    /\ \A k \in 1..Len(apps) : apps[k] = FirstOfYear(apps[k].year)
    /\ \A k, l \in 1..Len(apps) : k < l => apps[k].year < apps[l].year

(* C23: merged appearances are a union keyed by year: for a group of two   *)
(* or more records the merged appearances hold exactly one entry for each  *)
(* year that occurs in a member's appearances, the entry of the first      *)
(* member in input order that has the year, in ascending order of year, so *)
(* no two of them share a year; in merge_by_urls, merge_with_api_names and *)
(* align_with_api alike.                                                   *)
C23_AppearancesUnionByYear ==
    (pc \notin {"group", "raised"} /\ Len(group_orgs) >= 2) =>
        /\ UnionKeyedByYear(merged.appearances)
        /\ UnionKeyedByYear(merge_orgs_for_api_match(A_Kodi, group_orgs).appearances)

\* a merge of members that have a year in common with different entries, a
\* year twice in one member and an appearance without a year
C23_Witness ==
    /\ pc \notin {"group", "raised"}
    /\ Len(group_orgs) >= 2
    /\ Len(merged.appearances) = 3
    /\ Len(MemberAppearances) >= 5
    /\ \E k \in 1..Len(MemberAppearances) : ~has_year(MemberAppearances[k])
    /\ \E k, l \in 1..Len(MemberAppearances) :
          /\ k < l /\ has_year(MemberAppearances[k]) /\ has_year(MemberAppearances[l])
          /\ MemberAppearances[k].year = MemberAppearances[l].year
          /\ MemberAppearances[k] # MemberAppearances[l]
          /\ MemberAppearances[k] \in Range(merged.appearances)
          /\ MemberAppearances[l] \notin Range(merged.appearances)

(***************************************************************************)
(* Merged timestamps (SpecMerge)                                           *)
(***************************************************************************)
\* the members that have a timestamp under the key
Stamped(key) ==
    {k \in 1..Len(group_orgs) : key \in DOMAIN group_orgs[k] /\ group_orgs[k][key].kind # "null"}

\* the merged timestamp is that of a member, and no member's is earlier
\* (later, for latest)
IsExtremeStamp(key, latest) ==
    Stamped(key) # {} =>
        /\ key \in DOMAIN merged
        /\ \E k \in Stamped(key) : merged[key] = group_orgs[k][key]
        /\ \A k \in Stamped(key) :
              IF latest THEN group_orgs[k][key].at <= merged[key].at
              ELSE merged[key].at <= group_orgs[k][key].at

(* C24: for a group of two or more records (each with a name), computing   *)
(* the merged timestamps never raises, the merged created_at is that of a  *)
(* member whose timestamp is the earliest among the members and the merged *)
(* updated_at that of a member whose timestamp is the latest, whatever the *)
(* representation of the timestamps.                                       *)
C24_EarliestCreatedLatestUpdated ==
    (Len(group_orgs) >= 2 /\ \A k \in 1..Len(group_orgs) : has_name(group_orgs[k])) =>
        /\ pc # "raised"
        /\ pc # "group" =>
              /\ IsExtremeStamp("created_at", FALSE)
              /\ IsExtremeStamp("updated_at", TRUE)


(***************************************************************************)
(* merge_by_urls.main, lines 276-300: find and union called in any         *)
(* sequence on a parent array                                              *)
(***************************************************************************)
MaxNodes == 4
MaxUnions == 3

Nodes == 1..MaxNodes

\* line 276: parent = list(range(len(orgs)))
parent_list == [k \in Nodes |-> k]

\* what the steps on the parent array leave alone
uf_rest == <<i, orgs, url_to_orgs, groups, merged_orgs, mvars, avars, cvars,
             name1, name2, compat, query_name, threshold, api_match,
             docs, thresh, used, name_groups, dvars, url1, url2, key1, key2>>

UfRestIdle ==
    /\ i = 1
    /\ orgs = <<>> /\ url_to_orgs = <<>> /\ groups = <<>> /\ merged_orgs = <<>>
    /\ MergeIdle /\ api_orgs = <<>> /\ AlignIdle /\ CompareIdle
    /\ name1 = None /\ name2 = None /\ compat = None
    /\ query_name = None /\ threshold = None /\ api_match = None
    /\ docs = <<>> /\ thresh = None /\ used = {} /\ name_groups = <<>>
    /\ collection = <<>> /\ projects = <<>> /\ by_domain = <<>>
    /\ dry_run = FALSE /\ delete_old = FALSE
    /\ url1 = None /\ url2 = None /\ key1 = None /\ key2 = None

InitUnionFind ==
    /\ pc = "union_find"
    /\ parent = parent_list
    /\ UnionIdle
    /\ UfRestIdle

\* lines 278-281: find(x), for the path compression it does
FindCall ==
    /\ pc = "union_find"
    /\ \E x \in Nodes : parent' = find(parent, x).parent
    /\ UNCHANGED <<pc, uf_rest, uvars>>

\* lines 283-286: union(x, y); union(x, x) reads the same root twice and
\* writes nothing, which is what FindCall does
UnionCall ==
    /\ pc = "union_find"
    /\ \E x \in Nodes, y \in Nodes :
          /\ x # y
          /\ Cardinality(union_requests \cup {<<x, y>>}) <= MaxUnions
          /\ parent' = union(parent, x, y)
          /\ union_requests' = union_requests \cup {<<x, y>>}
    /\ UNCHANGED <<pc, uf_rest, workers, overlapped>>

NextUnionFind == FindCall \/ UnionCall

SpecUnionFind == InitUnionFind /\ [][NextUnionFind]_vars

\* the index reached from x by following the parent pointers n times
RECURSIVE follow(_, _, _)
follow(p, x, n) == IF n = 0 THEN x ELSE follow(p, p[x], n - 1)

\* where the parent pointers lead from x, if they lead to a root
end_of(p, x) == follow(p, x, Len(p))

\* following the parent pointers from any index reaches an index that is its
\* own parent
IsForest(p) == \A x \in DOMAIN p : p[end_of(p, x)] = end_of(p, x)

\* the indices connected to those of S by the calls
RECURSIVE ConnectedTo(_, _)
ConnectedTo(S, calls) ==
    LET T == S \cup {b \in Nodes : \E a \in S : <<a, b>> \in calls \/ <<b, a>> \in calls}
    IN IF T = S THEN S ELSE ConnectedTo(T, calls)

(* C27: after any sequence of find and union calls the parent pointers     *)
(* form a forest (so find terminates), two indices have the same root      *)
(* exactly when the union calls made so far connect them, and a find call  *)
(* with path compression returns the root and changes no index's root.     *)
C27_UnionFindInvariant ==
    pc = "union_find" =>
        /\ IsForest(parent)
        /\ \A x \in Nodes, y \in Nodes :
              end_of(parent, x) = end_of(parent, y) <=> y \in ConnectedTo({x}, union_requests)
        /\ \A x \in Nodes :
              /\ find(parent, x).root = end_of(parent, x)
              /\ IsForest(find(parent, x).parent)
              /\ \A y \in Nodes : end_of(find(parent, x).parent, y) = end_of(parent, y)

\* three unions made, an index two pointers away from its root (a find on it
\* compresses the path), and two indices still apart
C27_Witness ==
    /\ pc = "union_find"
    /\ Cardinality(union_requests) = MaxUnions
    /\ \E x \in Nodes : parent[x] # x /\ parent[parent[x]] # parent[x]
                        /\ find(parent, x).parent # parent
    /\ \E x \in Nodes, y \in Nodes : end_of(parent, x) # end_of(parent, y)

(***************************************************************************)
(* union called by two callers on the same parent array, lines 283-286:    *)
(* a call reads its two roots, then writes the parent of the one           *)
(***************************************************************************)
Workers == {1, 2}

\* the calls union(x, y) a caller may make
WorkerCalls ==
    {c \in {[at |-> "call", x |-> x, y |-> y, px |-> 0, py |-> 0] :
                x \in Nodes, y \in Nodes} : c.x # c.y}

InitWorkers ==
    /\ pc = "workers"
    /\ parent = parent_list
    /\ workers \in [Workers -> WorkerCalls]
    /\ union_requests = {}
    /\ overlapped = FALSE
    /\ UfRestIdle

\* line 284: px, py = find(x), find(y)
worker_reads(p, w) ==
    LET fx == find(p, w.x)
        fy == find(fx.parent, w.y)
    IN [parent |-> fy.parent, w |-> [w EXCEPT !.at = "found", !.px = fx.root, !.py = fy.root]]

\* writes under the index x itself, whatever was read
worker_writes_node(p, w) == IF w.px # w.py THEN [p EXCEPT ![w.x] = w.y] ELSE p

\* lines 285-286: if px != py: parent[px] = py
worker_writes(p, w) == IF w.px # w.py THEN [p EXCEPT ![w.px] = w.py] ELSE p

WorkerFinds(t) ==
    /\ pc = "workers"
    /\ workers[t].at = "call"
    /\ parent' = worker_reads(parent, workers[t]).parent
    /\ workers' = [workers EXCEPT ![t] = worker_reads(parent, workers[t]).w]
    /\ union_requests' = union_requests \cup {<<workers[t].x, workers[t].y>>}
    /\ overlapped' = (overlapped \/ \E u \in Workers \ {t} : workers[u].at = "found")
    /\ UNCHANGED <<pc, uf_rest>>

WorkerWrites(t) ==
    /\ pc = "workers"
    /\ workers[t].at = "found"
    /\ parent' = worker_writes(parent, workers[t])
    /\ workers' = [workers EXCEPT ![t].at = "done"]
    /\ UNCHANGED <<pc, uf_rest, union_requests, overlapped>>

NextWorkers == \E t \in Workers : WorkerFinds(t) \/ WorkerWrites(t)

SpecWorkers == InitWorkers /\ [][NextWorkers]_vars

AllDone == pc = "workers" /\ \A t \in Workers : workers[t].at = "done"

\* every call of the set has its two indices under one root
Reflected(p, calls) ==
    IsForest(p) /\ \A c \in calls : end_of(p, c[1]) = end_of(p, c[2])

\* the groups of a parent array, read by following the pointers
GroupsOf(p) == {{b \in DOMAIN p : end_of(p, b) = end_of(p, a)} : a \in DOMAIN p}

\* the parent arrays the two calls give when made one at a time, in either order
OneAtATime ==
    {apply_calls(parent_list, o) :
        o \in Orders(<<<<workers[1].x, workers[1].y>>, <<workers[2].x, workers[2].y>>>>)}

(* C25: unions need a single writer. When the union calls run one at a     *)
(* time (in either order, and in the run itself when no call read its      *)
(* roots while the other was between its read and its write), every        *)
(* requested union is reflected in the final partition, which is that of   *)
(* a sequential order. The witness is the other half: two calls that       *)
(* interleave between their reads and their writes lose a requested union, *)
(* and the final partition differs from that of every sequential order.    *)
C25_SingleWriterKeepsUnions ==
    AllDone =>
        /\ \A p \in OneAtATime : Reflected(p, union_requests)
        /\ ~overlapped =>
              /\ Reflected(parent, union_requests)
              /\ GroupsOf(parent) \in {GroupsOf(p) : p \in OneAtATime}

\* union(a, b) and union(a, c) both read root a before either writes
C25_Witness ==
    /\ AllDone
    /\ overlapped
    /\ workers[1].x = workers[2].x /\ workers[1].y # workers[2].y
    /\ workers[1].px = workers[2].px
    /\ \A p \in OneAtATime : Reflected(p, union_requests)
    /\ IsForest(parent)
    /\ ~Reflected(parent, union_requests)
    /\ GroupsOf(parent) \notin {GroupsOf(p) : p \in OneAtATime}

\* a run in which the calls did not interleave
C25_OneAtATimeRun ==
    /\ AllDone
    /\ ~overlapped
    /\ Cardinality(union_requests) = 2
    /\ Reflected(parent, union_requests)


(***************************************************************************)
(* gsoc_archive_importer.upsert_org_and_projects.  Modelled fields of an   *)
(* organization document: _id, canonical_id, slug, name, updated_at,       *)
(* created_at, logo_local_filename, years_appeared, appearances,           *)
(* years_count; of a project document: project_id, org_canonical_id, year. *)
(***************************************************************************)
MaxImports == 3

\* str(year)
RECURSIVE str(_)
str(n) == IF n < 10 THEN <<Digits[n + 1]>> ELSE str(n \div 10) \o <<Digits[(n % 10) + 1]>>

\* $addToSet of one value to an array field
add_to_set(array, value) == IF value \in Range(array) THEN array ELSE Append(array, value)

\* BASE of the importer, and a source URL given by the caller
U_Base == <<"h","t","t","p","s",":","/","/","s","u","m","m","e","r","o","f","c","o","d","e",".",
            "w","i","t","h","g","o","o","g","l","e",".","c","o","m">>
U_ArchiveApi == <<"h","t","t","p","s",":","/","/","s","u","m","m","e","r","o","f","c","o","d","e",".",
                  "w","i","t","h","g","o","o","g","l","e",".","c","o","m","/","a","p","i">>

\* line 139: prog = org_json.get("program_slug") or str(year)
prog_of(org_json, year) ==
    IF Truthy(Get(org_json, "program_slug")) THEN org_json.program_slug ELSE str(year)

\* lines 140-141
can_id_of(org_json, year) == canonical_id(prog_of(org_json, year), Get(org_json, "slug"))

\* lines 151-157
appearance_of(org_json, year, source_url, projects_list) ==
    [year |-> int(prog_of(org_json, year)),
     appeared |-> TRUE,
     pitchedCount |-> None,
     chosenCount |-> Len(projects_list),
     source_url |-> IF Truthy(source_url) THEN source_url
                    ELSE U_Base \o <<"/","a","r","c","h","i","v","e","/">> \o prog_of(org_json, year)]

\* lines 159-175, utcnow() being the number of the call
org_doc_of(org_json, year, call) ==
    [canonical_id |-> can_id_of(org_json, year),
     slug |-> Get(org_json, "slug"),
     name |-> Get(org_json, "name"),
     updated_at |-> call]

\* lines 178-183: update_one({"canonical_id": can_id}, {$set, $setOnInsert, $addToSet}, upsert=True)
upsert_org(coll, org_json, year, source_url, projects_list, call) ==
    LET org_doc == org_doc_of(org_json, year, call)
        appearance == appearance_of(org_json, year, source_url, projects_list)
        at == {k \in 1..Len(coll) : coll[k].canonical_id = org_doc.canonical_id}
        fresh == 1 + Max({0} \cup {coll[k]._id : k \in 1..Len(coll)})
    IN IF at = {}
       THEN Append(coll, org_doc @@ [_id |-> fresh, created_at |-> call,
                                     logo_local_filename |-> None,
                                     years_appeared |-> <<appearance.year>>,
                                     appearances |-> <<appearance>>])
       ELSE [coll EXCEPT ![Min(at)] =
                org_doc
                @@ [years_appeared |-> add_to_set(list_or_empty(@, "years_appeared"),
                                                  appearance.year),
                    appearances |-> add_to_set(list_or_empty(@, "appearances"), appearance)]
                @@ @]

\* lines 217-221: years_count = len(doc.get("years_appeared", []))
with_years_count(coll, can_id) ==
    [k \in 1..Len(coll) |->
        IF k = Min({j \in 1..Len(coll) : coll[j].canonical_id = can_id})
        THEN [years_count |-> Len(list_or_empty(coll[k], "years_appeared"))] @@ coll[k]
        ELSE coll[k]]

\* lines 186-215: one upsert by project_id for each project that has an id
RECURSIVE upsert_projects(_, _, _, _)
upsert_projects(projs, projects_list, org_json, year) ==
    IF projects_list = <<>> THEN projs
    ELSE LET p == Head(projects_list)
             doc == [project_id |-> Get(p, "id"),
                     org_canonical_id |-> can_id_of(org_json, year),
                     year |-> int(prog_of(org_json, year))]
             at == {k \in 1..Len(projs) : projs[k].project_id = doc.project_id}
             written == IF ~Truthy(Get(p, "id")) THEN projs
                        ELSE IF at = {} THEN Append(projs, doc)
                        ELSE [projs EXCEPT ![Min(at)] = doc]
         IN upsert_projects(written, Tail(projects_list), org_json, year)

\* archive records of organizations, with and without program_slug
ImportPool == {
    [slug |-> <<"k","o","d","i">>, name |-> N_Kodi, program_slug |-> <<"2","0","1","6">>],
    [slug |-> <<"d","e","b","i","a","n">>, name |-> N_Debian] }

ImportYears == {2016, 2017}

SourceUrls == {None, U_ArchiveApi}

\* project lists: none, one project, two of which one has no id
ProjectLists == {<<>>, <<[id |-> <<"p","1">>]>>, <<[id |-> <<"p","2">>], [title |-> <<"t">>]>>}

InitImport ==
    /\ pc = "import"
    /\ i = 1
    /\ GroupingIdle /\ MergeIdle /\ api_orgs = <<>> /\ AlignIdle /\ CompareIdle
    /\ NamesIdle

\* upsert_org_and_projects(db, org_json, year, source_url, projects_list),
\* the i-th call
UpsertOrgAndProjects ==
    /\ pc = "import"
    /\ i <= MaxImports
    /\ \E org_json \in ImportPool, year \in ImportYears, source_url \in SourceUrls,
          projects_list \in ProjectLists :
          /\ collection' = with_years_count(
                               upsert_org(collection, org_json, year, source_url,
                                          projects_list, i),
                               can_id_of(org_json, year))
          /\ projects' = upsert_projects(projects, projects_list, org_json, year)
    /\ i' = i + 1
    /\ UNCHANGED <<pc, gvars, mvars, avars, cvars, name1, name2, compat, query_name,
                   threshold, api_match, docs, thresh, used, name_groups,
                   by_domain, dry_run, delete_old, zvars>>

NextImport == UpsertOrgAndProjects

SpecImport == InitImport /\ [][NextImport]_vars

NoDuplicateYears(d) ==
    \A a, b \in 1..Len(d.years_appeared) : a # b => d.years_appeared[a] # d.years_appeared[b]

OneAppearancePerYear(d) ==
    \A a, b \in 1..Len(d.appearances) : a # b => d.appearances[a].year # d.appearances[b].year

YearsCountRight(d) == d.years_count = Cardinality(Range(d.years_appeared))

(* C26: after any sequence of upsert_org_and_projects calls (repeated      *)
(* imports of the same organization and year with a different project      *)
(* count or source URL included), every organization document has no       *)
(* duplicate year in years_appeared, at most one appearances entry per     *)
(* year, and years_count equal to the number of distinct years in          *)
(* years_appeared.                                                         *)
C26_YearsAndAppearancesUnique ==
    pc = "import" =>
        \A k \in 1..Len(collection) :
            /\ NoDuplicateYears(collection[k])
            /\ OneAppearancePerYear(collection[k])
            /\ YearsCountRight(collection[k])


(***************************************************************************)
(* merge_by_urls.main on records whose websites are on hosts that contain  *)
(* x.com or www. inside them                                               *)
(***************************************************************************)
U_NetflixAbout == <<"h","t","t","p","s",":","/","/","n","e","t","f","l","i","x",".","c","o","m",
                    "/","a","b","o","u","t">>
U_DropboxAbout == <<"h","t","t","p","s",":","/","/","w","w","w",".","d","r","o","p","b","o","x",
                    ".","c","o","m","/","a","b","o","u","t","/">>
U_MyWwwLab == <<"h","t","t","p",":","/","/","m","y","w","w","w",".","l","a","b",".","o","r","g">>
U_MyLab == <<"h","t","t","p","s",":","/","/","M","y","L","a","b",".","o","r","g","/">>
N_Netflix == <<"N","e","t","f","l","i","x">>
N_Dropbox == <<"D","r","o","p","b","o","x">>
N_MyWww == <<"M","y"," ","W","W","W"," ","L","a","b">>
N_MyLab == <<"M","y","L","a","b">>

\* raw records as loaded from gsoc_archive.organizations.json
HostPool == <<
    [name |-> N_Netflix, website |-> U_NetflixAbout, years_appeared |-> <<2016>>],
    [name |-> N_Dropbox, website |-> U_DropboxAbout, socials |-> EmptyDict,
     years_appeared |-> <<2017>>],
    [name |-> N_MyWww, website |-> U_MyWwwLab, years_appeared |-> <<2018>>],
    [name |-> N_MyLab, website |-> U_MyLab, years_appeared |-> <<2019>>],
    [name |-> N_XBMCFoundation, website |-> U_KodiHttp,
     socials |-> [github |-> U_GithubXbmc, twitter |-> None],
     years_appeared |-> <<2014, 2015>>],
    [name |-> N_Kodi, website |-> U_KodiWww,
     socials |-> [github |-> U_GithubXbmcRepo, twitter |-> U_TwitterKodi],
     years_appeared |-> <<2016, 2018>>],
    [name |-> N_KodiFoundation, website |-> <<>>, socials |-> [twitter |-> U_XKodi],
     years_appeared |-> <<2020>>] >>

\* lines 252-253
InitHosts ==
    /\ pc = "extract"
    /\ i = 1
    /\ orgs \in RecordLists(HostPool, MaxOrgs)
    /\ url_to_orgs = <<>>
    /\ parent = <<>>
    /\ groups = <<>>
    /\ merged_orgs = <<>>
    /\ MergeIdle /\ api_orgs = <<>> /\ AlignIdle /\ CompareIdle /\ NamesIdle

SpecHosts == InitHosts /\ [][Next]_vars

\* the host of a URL: the network location, lowercase, without a leading www.
HostOf(url) ==
    LET netloc == urlparse(lower(strip(url, Whitespace))).netloc
    IN IF startswith(netloc, S_Www) THEN SubSeq(netloc, Len(S_Www) + 1, Len(netloc)) ELSE netloc

\* the handle of a URL on one of the hosts: its first path segment, lowercase
HandleOn(url, hosts) ==
    IF Truthy(url) /\ HostOf(url) \in hosts
       /\ first_path_part(urlparse(lower(strip(url, Whitespace)))) # <<>>
    THEN {first_path_part(urlparse(lower(strip(url, Whitespace))))}
    ELSE {}

\* the GitHub handles of a record (of its GitHub link, or of a website on github.com)
GithubHandles(org) ==
    HandleOn(Get(socials_of(org), "github"), {S_GithubCom})
    \cup HandleOn(Get(org, "website"), {S_GithubCom})

\* the Twitter/X handles of a record
TwitterHandles(org) ==
    HandleOn(Get(socials_of(org), "twitter"), {S_TwitterCom, S_XCom})
    \cup HandleOn(Get(org, "website"), {S_TwitterCom, S_XCom})

\* the website host of a record, as a set (empty without a website)
WebsiteHosts(org) ==
    IF Truthy(Get(org, "website")) /\ HostOf(org.website) # <<>>
    THEN {HostOf(org.website)} ELSE {}

\* two records with the same website host, GitHub handle or Twitter/X handle
Linked(a, b) ==
    \/ WebsiteHosts(orgs[a]) \cap WebsiteHosts(orgs[b]) # {}
    \/ GithubHandles(orgs[a]) \cap GithubHandles(orgs[b]) # {}
    \/ TwitterHandles(orgs[a]) \cap TwitterHandles(orgs[b]) # {}

\* the records a chain of linked records leads to from those of S
RECURSIVE ChainFrom(_)
ChainFrom(S) ==
    LET T == S \cup {b \in 1..Len(orgs) : \E a \in S : Linked(a, b)}
    IN IF T = S THEN S ELSE ChainFrom(T)

(* C28: URL grouping is sound with respect to hosts and handles: two       *)
(* records are in the same group only if a chain of records links them in  *)
(* which each consecutive pair has the same website host (lowercase,       *)
(* without a leading www.), the same GitHub handle or the same Twitter/X   *)
(* handle; records on different hosts that are not github.com, twitter.com *)
(* or x.com and that share no handle are never grouped.                    *)
C28_GroupedOnlyIfLinked ==
    Grouped =>
        \A a \in 1..Len(orgs), b \in 1..Len(orgs) : SameGroup(a, b) => b \in ChainFrom({a})


(***************************************************************************)
(* align_with_api.main: what becomes of every input record                 *)
(***************************************************************************)
\* the aligned record made for the authoritative name n
AlignedFor(n) == aligned_orgs[CHOOSE m \in Carrying(n) : TRUE]

\* record k is in one list only, and once in it
PlacedOnce(k) ==
    /\ AssignedOnce(k)
    /\ Count(unmatched_orgs, our_orgs[k]) <= 1
    /\ \A n \in DOMAIN api_groups : Count(api_groups[n], our_orgs[k]) <= 1

\* the years of record k are in the output record it was assigned to
YearsKept(k) ==
    IF AssignedTo(k) = None
    THEN Count(aligned_orgs, our_orgs[k]) = 1
    ELSE Range(list_or_empty(our_orgs[k], "years_appeared"))
            \subseteq Range(AlignedFor(AssignedTo(k)).years_appeared)

(* C29: alignment conserves records. With pairwise distinct authoritative  *)
(* names, every input record the match loop is past is in exactly one      *)
(* list, that of one authoritative name or the unmatched list, and once;   *)
(* the aligned output holds exactly one record for each authoritative name *)
(* that got a record plus each unmatched record once; every year of every  *)
(* input record is in years_appeared of the output record it went to.      *)
C29_AlignmentConservesRecords ==
    /\ \A k \in 1..Len(our_orgs) : Matched(k) => PlacedOnce(k)
    /\ \A n \in DOMAIN api_groups : IsApiName(n)
    /\ Aligned =>
          /\ Len(aligned_orgs) = Cardinality(DOMAIN api_groups) + Len(unmatched_orgs)
          /\ \A n \in DOMAIN api_groups : Cardinality(Carrying(n)) = 1
          /\ \A k \in 1..Len(unmatched_orgs) : Count(aligned_orgs, unmatched_orgs[k]) = 1
          /\ \A k \in 1..Len(our_orgs) : YearsKept(k)

\* two records with different years went to one authoritative name
C29_Witness ==
    /\ Aligned
    /\ \E k, m \in 1..Len(our_orgs) :
          /\ k # m
          /\ AssignedTo(k) # None
          /\ AssignedTo(k) = AssignedTo(m)
          /\ list_or_empty(our_orgs[k], "years_appeared") # list_or_empty(our_orgs[m], "years_appeared")
          /\ Len(list_or_empty(our_orgs[m], "years_appeared")) > 0

\* a run with a record assigned and a record unmatched
C29_WitnessUnmatched ==
    /\ Aligned
    /\ Len(unmatched_orgs) = 1
    /\ Cardinality(DOMAIN api_groups) = 1


(***************************************************************************)
(* final_comparison.py line 54, final_comparison_report.py line 72: the    *)
(* divisor and the range of the match percentage                           *)
(***************************************************************************)
\* the divisor of the percentage of mismatch k: the size of the union of the
\* two year sets
DivisorOf(k) ==
    Cardinality(Range(year_mismatches[k].api_years) \cup Range(year_mismatches[k].our_years))

(* C30: for every entry classified as a year mismatch the union of the two *)
(* year sets is not empty, so the division of the match percentage is      *)
(* never by zero (also in final_comparison_report, which has no max(.., 1) *)
(* guard), and the percentage is an integer from 0 to 99, never 100.       *)
C30_MatchPercentBelowHundred ==
    Comparing =>
        \A k \in DOMAIN year_mismatches :
            /\ DivisorOf(k) >= 1
            /\ ApiYearsOf(year_mismatches[k].name) # CandidateYears(year_mismatches[k].name)
            /\ HasMatchPercent(k) => MatchPercentOf(k) \in 0..99

\* final_comparison_report with two mismatches: no authoritative year against
\* one candidate year (divisor 1, 0 percent), and a percentage above 0
C30_Witness ==
    /\ pc = "final_comparison_report_reported"
    /\ \E k, m \in DOMAIN year_mismatches :
          /\ year_mismatches[k].api_years = <<>>
          /\ DivisorOf(k) = 1
          /\ year_mismatches[k].match_percent = 0
          /\ year_mismatches[m].match_percent > 0

====
